---- MODULE Spec2Model ----
(***************************************************************************)
(* The address book and address-event store of tarodb (TaroAddressBook).   *)
(* The SQL store is a record of tables; a row's primary key is its         *)
(* position in the table (rows are never deleted).  Every public method    *)
(* runs its body through ExecTx, which keeps the body's writes only when   *)
(* the body returns no error.                                              *)
(*                                                                         *)
(* Optional values (Go nil pointers, nil slices, SQL NULL) are sequences:  *)
(* <<>> is nil/NULL and <<v>> is the value v.                              *)
(***************************************************************************)
EXTENDS Integers, Sequences, FiniteSets, TLC

VARIABLES
    db,        \* the tables of the store
    last,      \* the last call of the public API: operation, arguments, result
    inserted,  \* the address records handed to successful InsertAddrs calls, in order
    txs        \* the call each concurrent caller is in: its transaction and position

vars == <<db, last, inserted, txs>>

-----------------------------------------------------------------------------
(* Errors *)

OK == "ok"
ErrConstraint == "constraint failed"
ErrNoRows == "sql: no rows in result set"
ErrNoAddr == "no such address"
ErrDecode == "decode"
ErrBlockHash == "error parsing block hash"
ErrFetch == "error fetching addr event"
ErrCommitment == "error deriving commitment"

-----------------------------------------------------------------------------
(* Bounds and input samples *)

MaxBatch == 2
MaxEvents == 3

\* x coordinates that are on the curve; 0 is not
CurveX == 1 .. 4

\* the width of the integers the amount is cast through, scaled down
WordMod == 2 ^ 4

\* The status codes the status column accepts.  TestAddressEventQuery
\* creates five events with the statuses i % (StatusCompleted + 1), all
\* accepted, of which exactly one, the second, is Confirmed: Completed is 3
\* and the code 2 between Confirmed and Completed is valid; 4 is rejected
\* (TestAddrEventStatusDBEnum).
Statuses == {0, 1, 2, 3}
StatusTransactionDetected == 0
StatusTransactionConfirmed == 1
StatusCompleted == 3

-----------------------------------------------------------------------------
(* Keys, hashes, times and their encodings *)

PubKey(x, odd) == [x |-> x, odd |-> odd]

\* btcec.PublicKey.SerializeCompressed: parity byte, then x
SerializeCompressed(k) == <<IF k.odd THEN 3 ELSE 2, k.x>>

\* btcec.ParsePubKey
ParsePubKey(b) ==
    IF Len(b) = 2 /\ b[1] \in {2, 3} /\ b[2] \in CurveX
    THEN [ok |-> TRUE, key |-> PubKey(b[2], b[1] = 3)]
    ELSE [ok |-> FALSE, key |-> PubKey(0, FALSE)]

\* schnorr.SerializePubKey: x only, the parity is dropped
SchnorrSerializePubKey(k) == <<k.x>>

\* schnorr.ParsePubKey: the key with that x and even y
SchnorrParsePubKey(b) ==
    IF Len(b) = 1 /\ b[1] \in CurveX
    THEN [ok |-> TRUE, key |-> PubKey(b[1], FALSE)]
    ELSE [ok |-> FALSE, key |-> PubKey(0, FALSE)]

\* a time.Time: seconds since the epoch and whether it carries a monotonic
\* clock reading (time.Now() does, a time read from the store does not)
Time(unix, mono) == [unix |-> unix, mono |-> mono]
ZeroTime == Time(0, FALSE)
IsZero(t) == t.unix = 0

\* what the store keeps of a timestamp
StoreTime(t) == Time(t.unix, FALSE)

\* math.MaxInt64, the latest second a time.Time is made of
MaxInt64 == 127

\* int64(uint64) and uint64(int64) on the amount
ToInt64(u) == IF u >= WordMod \div 2 THEN u - WordMod ELSE u
ToUint64(i) == i % WordMod

KeyDescriptor(pub, family, index) ==
    [PubKey |-> pub, Family |-> family, Index |-> index]

-----------------------------------------------------------------------------
(* The store *)

EmptyDB ==
    [ genesis_points |-> <<>>,
      genesis_assets |-> <<>>,
      internal_keys  |-> <<>>,
      script_keys    |-> <<>>,
      addrs          |-> <<>>,
      chain_txns     |-> <<>>,
      managed_utxos  |-> <<>>,
      addr_events    |-> <<>>,
      asset_proofs   |-> <<>>,
      macaroons      |-> <<>> ]

\* the result of a store statement or of a transaction body
Res(d, err, val) == [db |-> d, err |-> err, val |-> val]

\* BatchedTx.ExecTx: commit the body's writes on success, roll back on error
ExecTx(before, r) == IF r.err = OK THEN r.db ELSE before

Rows(tbl) == 1 .. Len(tbl)

\* the id of the row of internal_keys with this raw key, 0 when there is none
InternalKeyID(d, raw) ==
    IF \E i \in Rows(d.internal_keys) : d.internal_keys[i].raw_key = raw
    THEN CHOOSE i \in Rows(d.internal_keys) : d.internal_keys[i].raw_key = raw
    ELSE 0

ScriptKeyID(d, tweaked) ==
    IF \E i \in Rows(d.script_keys) : d.script_keys[i].tweaked_script_key = tweaked
    THEN CHOOSE i \in Rows(d.script_keys) : d.script_keys[i].tweaked_script_key = tweaked
    ELSE 0

AddrID(d, top) ==
    IF \E i \in Rows(d.addrs) : d.addrs[i].taproot_output_key = top
    THEN CHOOSE i \in Rows(d.addrs) : d.addrs[i].taproot_output_key = top
    ELSE 0

GenesisPointID(d, prevOut) ==
    IF \E i \in Rows(d.genesis_points) : d.genesis_points[i] = prevOut
    THEN CHOOSE i \in Rows(d.genesis_points) : d.genesis_points[i] = prevOut
    ELSE 0

GenesisAssetID(d, row) ==
    IF \E i \in Rows(d.genesis_assets) : d.genesis_assets[i] = row
    THEN CHOOSE i \in Rows(d.genesis_assets) : d.genesis_assets[i] = row
    ELSE 0

\* upsertGenesisPoint: the id of the genesis point, inserted when new
upsertGenesisPoint(d, prevOut) ==
    IF GenesisPointID(d, prevOut) # 0
    THEN Res(d, OK, GenesisPointID(d, prevOut))
    ELSE Res([d EXCEPT !.genesis_points = Append(@, prevOut)], OK,
             Len(d.genesis_points) + 1)

\* upsertGenesis: the id of the genesis asset, inserted when new
upsertGenesis(d, pointID, genesis) ==
    LET row == [ genesis_point_id |-> pointID,
                 asset_tag        |-> genesis.Tag,
                 output_index     |-> genesis.OutputIndex,
                 asset_type       |-> genesis.Type ]
    IN  IF GenesisAssetID(d, row) # 0
        THEN Res(d, OK, GenesisAssetID(d, row))
        ELSE Res([d EXCEPT !.genesis_assets = Append(@, row)], OK,
                 Len(d.genesis_assets) + 1)

\* fetchGenesis: the asset.Genesis of a genesis asset id
fetchGenesis(d, id) ==
    IF id \in Rows(d.genesis_assets)
    THEN LET row == d.genesis_assets[id]
         IN  Res(d, OK, [ FirstPrevOut |-> d.genesis_points[row.genesis_point_id],
                          Tag          |-> row.asset_tag,
                          OutputIndex  |-> row.output_index,
                          Type         |-> row.asset_type ])
    ELSE Res(d, ErrNoRows, [ FirstPrevOut |-> 0, Tag |-> 0,
                             OutputIndex |-> 0, Type |-> 0 ])

\* UpsertInternalKey: insert the key, or update the locator of the stored
\* row with the same raw key; returns the row's id
UpsertInternalKey(d, arg) ==
    LET id == InternalKeyID(d, arg.RawKey)
        row == [ raw_key    |-> arg.RawKey,
                 key_family |-> arg.KeyFamily,
                 key_index  |-> arg.KeyIndex ]
    IN  IF id # 0
        THEN Res([d EXCEPT !.internal_keys[id] = row], OK, id)
        ELSE Res([d EXCEPT !.internal_keys = Append(@, row)], OK,
                 Len(d.internal_keys) + 1)

\* UpsertScriptKey: the same, keyed by the tweaked key
UpsertScriptKey(d, arg) ==
    LET id == ScriptKeyID(d, arg.TweakedScriptKey)
        row == [ internal_key_id    |-> arg.InternalKeyID,
                 tweaked_script_key |-> arg.TweakedScriptKey,
                 tweak              |-> arg.Tweak ]
    IN  IF id # 0
        THEN Res([d EXCEPT !.script_keys[id] = row], OK, id)
        ELSE Res([d EXCEPT !.script_keys = Append(@, row)], OK,
                 Len(d.script_keys) + 1)

\* InsertAddr on a table without the UNIQUE constraint
InsertAddrNoUnique(d, arg) ==
    Res([d EXCEPT !.addrs = Append(@,
            [ version            |-> arg.Version,
              genesis_asset_id   |-> arg.GenesisAssetID,
              fam_key            |-> arg.FamKey,
              script_key_id      |-> arg.ScriptKeyID,
              taproot_key_id     |-> arg.TaprootKeyID,
              taproot_output_key |-> arg.TaprootOutputKey,
              amount             |-> arg.Amount,
              asset_type         |-> arg.AssetType,
              creation_time      |-> StoreTime(arg.CreationTime),
              managed_from       |-> <<>> ])],
        OK, Len(d.addrs) + 1)

\* InsertAddr: taproot_output_key is UNIQUE; managed_from is not among the
\* inserted columns and starts NULL
InsertAddr(d, arg) ==
    IF AddrID(d, arg.TaprootOutputKey) # 0
    THEN Res(d, ErrConstraint, 0)
    ELSE Res([d EXCEPT !.addrs = Append(@,
                 [ version            |-> arg.Version,
                   genesis_asset_id   |-> arg.GenesisAssetID,
                   fam_key            |-> arg.FamKey,
                   script_key_id      |-> arg.ScriptKeyID,
                   taproot_key_id     |-> arg.TaprootKeyID,
                   taproot_output_key |-> arg.TaprootOutputKey,
                   amount             |-> arg.Amount,
                   asset_type         |-> arg.AssetType,
                   creation_time      |-> StoreTime(arg.CreationTime),
                   managed_from       |-> <<>> ])],
             OK, Len(d.addrs) + 1)

\* the row FetchAddrs and FetchAddrByTaprootOutputKey return for an address:
\* the address joined with its script key and its two internal keys
JoinedAddr(d, id) ==
    LET a   == d.addrs[id]
        sk  == d.script_keys[a.script_key_id]
        raw == d.internal_keys[sk.internal_key_id]
        tap == d.internal_keys[a.taproot_key_id]
    IN  [ Version          |-> a.version,
          GenesisAssetID   |-> a.genesis_asset_id,
          FamKey           |-> a.fam_key,
          TaprootOutputKey |-> a.taproot_output_key,
          Amount           |-> a.amount,
          AssetType        |-> a.asset_type,
          CreationTime     |-> a.creation_time,
          ManagedFrom      |-> a.managed_from,
          TweakedScriptKey |-> sk.tweaked_script_key,
          ScriptKeyTweak   |-> sk.tweak,
          RawScriptKey     |-> raw.raw_key,
          ScriptKeyFamily  |-> raw.key_family,
          ScriptKeyIndex   |-> raw.key_index,
          RawTaprootKey    |-> tap.raw_key,
          TaprootKeyFamily |-> tap.key_family,
          TaprootKeyIndex  |-> tap.key_index ]

-----------------------------------------------------------------------------
(* The address book: addresses *)

\* insertInternalKey that inserts a row whether or not the key is stored
insertInternalKeyAlways(d, desc) ==
    Res([d EXCEPT !.internal_keys = Append(@,
            [ raw_key    |-> SerializeCompressed(desc.PubKey),
              key_family |-> desc.Family,
              key_index  |-> desc.Index ])],
        OK, Len(d.internal_keys) + 1)

\* insertInternalKey that leaves out the key index
insertInternalKeyNoIndex(d, desc) ==
    UpsertInternalKey(d, [ RawKey    |-> SerializeCompressed(desc.PubKey),
                           KeyFamily |-> desc.Family,
                           KeyIndex  |-> 0 ])

\* insertInternalKey
insertInternalKey(d, desc) ==
    UpsertInternalKey(d, [ RawKey    |-> SerializeCompressed(desc.PubKey),
                           KeyFamily |-> desc.Family,
                           KeyIndex  |-> desc.Index ])

\* a round that stores the managed-from time the address record carries
InsertOneAddrAsManaged(d, addr) ==
    LET gp   == upsertGenesisPoint(d, addr.Genesis.FirstPrevOut)
        gen  == upsertGenesis(gp.db, gp.val, addr.Genesis)
        rawK == insertInternalKey(gen.db, addr.ScriptKeyTweak.RawKey)
        sk   == UpsertScriptKey(rawK.db,
                    [ InternalKeyID    |-> rawK.val,
                      TweakedScriptKey |-> SerializeCompressed(addr.ScriptKey),
                      Tweak            |-> addr.ScriptKeyTweak.Tweak ])
        tapK == insertInternalKey(sk.db, addr.InternalKeyDesc)
        famKeyBytes == IF addr.FamilyKey # <<>>
                       THEN SerializeCompressed(addr.FamilyKey[1])
                       ELSE <<>>
        ins  == InsertAddr(tapK.db,
            [ Version          |-> addr.Version,
              GenesisAssetID   |-> gen.val,
              FamKey           |-> famKeyBytes,
              ScriptKeyID      |-> sk.val,
              TaprootKeyID     |-> tapK.val,
              TaprootOutputKey |-> SchnorrSerializePubKey(addr.TaprootOutputKey),
              Amount           |-> ToInt64(addr.Amount),
              AssetType        |-> addr.Genesis.Type,
              CreationTime     |-> addr.CreationTime ])
    IN  IF ins.err # OK \/ IsZero(addr.ManagedAfter) THEN ins
        ELSE Res([ins.db EXCEPT !.addrs[ins.val].managed_from =
                      <<StoreTime(addr.ManagedAfter)>>], OK, ins.val)

\* one round of the loop of InsertAddrs: the statements for one address
InsertOneAddr(d, addr) ==
    LET gp   == upsertGenesisPoint(d, addr.Genesis.FirstPrevOut)
        gen  == upsertGenesis(gp.db, gp.val, addr.Genesis)
        rawK == insertInternalKey(gen.db, addr.ScriptKeyTweak.RawKey)
        sk   == UpsertScriptKey(rawK.db,
                    [ InternalKeyID    |-> rawK.val,
                      TweakedScriptKey |-> SerializeCompressed(addr.ScriptKey),
                      Tweak            |-> addr.ScriptKeyTweak.Tweak ])
        tapK == insertInternalKey(sk.db, addr.InternalKeyDesc)
        famKeyBytes == IF addr.FamilyKey # <<>>
                       THEN SerializeCompressed(addr.FamilyKey[1])
                       ELSE <<>>
    IN  InsertAddr(tapK.db,
            [ Version          |-> addr.Version,
              GenesisAssetID   |-> gen.val,
              FamKey           |-> famKeyBytes,
              ScriptKeyID      |-> sk.val,
              TaprootKeyID     |-> tapK.val,
              TaprootOutputKey |-> SchnorrSerializePubKey(addr.TaprootOutputKey),
              Amount           |-> ToInt64(addr.Amount),
              AssetType        |-> addr.Genesis.Type,
              CreationTime     |-> addr.CreationTime ])

\* the body of the transaction of InsertAddrs: stops at the first error
RECURSIVE InsertAddrsBody(_, _, _)
InsertAddrsBody(d, addrs, i) ==
    IF i > Len(addrs)
    THEN Res(d, OK, 0)
    ELSE LET r == InsertOneAddr(d, addrs[i])
         IN  IF r.err # OK
             THEN Res(r.db, r.err, 0)
             ELSE InsertAddrsBody(r.db, addrs, i + 1)

\* InsertAddrs with one transaction per address instead of one per batch
RECURSIVE InsertAddrsPerAddr(_, _, _)
InsertAddrsPerAddr(d, addrs, i) ==
    IF i > Len(addrs)
    THEN Res(d, OK, 0)
    ELSE LET r == InsertOneAddr(d, addrs[i])
         IN  IF r.err # OK
             THEN Res(d, r.err, 0)
             ELSE InsertAddrsPerAddr(r.db, addrs, i + 1)

InsertAddrsSplitTx(d, addrs) == InsertAddrsPerAddr(d, addrs, 1)

\* TaroAddressBook.InsertAddrs: the store after the call and the error
InsertAddrsTx(d, addrs) ==
    LET r == InsertAddrsBody(d, addrs, 1)
    IN  Res(ExecTx(d, r), r.err, 0)

\* address.QueryParams
QueryParams(after, before, limit, offset, unmanagedOnly) ==
    [ CreatedAfter  |-> after,  CreatedBefore |-> before,
      Limit         |-> limit,  Offset        |-> offset,
      UnmanagedOnly |-> unmanagedOnly ]

NoParams == QueryParams(ZeroTime, ZeroTime, 0, 0, FALSE)

\* the ids of a sequence of ids that satisfy a filter, in order
RECURSIVE SelectIDs(_, _)
SelectIDs(ids, keep) ==
    IF ids = <<>> THEN <<>>
    ELSE IF Head(ids) \in keep
         THEN <<Head(ids)>> \o SelectIDs(Tail(ids), keep)
         ELSE SelectIDs(Tail(ids), keep)

\* FetchAddrs: the ids of the addresses the query selects, in storage
\* order, after OFFSET and LIMIT (-1: no limit)
FetchAddrs(d, arg) ==
    LET keep == { i \in Rows(d.addrs) :
                    /\ d.addrs[i].creation_time.unix >= arg.CreatedAfter.unix
                    /\ d.addrs[i].creation_time.unix <= arg.CreatedBefore.unix
                    /\ arg.UnmanagedOnly => d.addrs[i].managed_from = <<>> }
        all  == SelectIDs([i \in Rows(d.addrs) |-> i], keep)
        from == IF arg.NumOffset >= Len(all) THEN <<>>
                ELSE SubSeq(all, arg.NumOffset + 1, Len(all))
    IN  IF arg.NumLimit < 0 \/ arg.NumLimit >= Len(from)
        THEN from
        ELSE SubSeq(from, 1, arg.NumLimit)

\* the loop body of QueryAddrs: a row of FetchAddrs as an AddrWithKeyInfo
AddrFromRow(d, row) ==
    LET gen         == fetchGenesis(d, row.GenesisAssetID)
        famKey      == IF row.FamKey # <<>> THEN ParsePubKey(row.FamKey)
                       ELSE [ok |-> TRUE, key |-> PubKey(0, FALSE)]
        rawScript   == ParsePubKey(row.RawScriptKey)
        internalKey == ParsePubKey(row.RawTaprootKey)
        scriptKey   == ParsePubKey(row.TweakedScriptKey)
        top         == SchnorrParsePubKey(row.TaprootOutputKey)
        err == IF gen.err # OK THEN gen.err
               ELSE IF ~famKey.ok \/ ~rawScript.ok \/ ~internalKey.ok
                       \/ ~scriptKey.ok \/ ~top.ok
                    THEN ErrDecode
                    ELSE OK
    IN  [ err  |-> err,
          addr |-> [ Version          |-> row.Version,
                     Genesis          |-> gen.val,
                     FamilyKey        |-> IF row.FamKey # <<>>
                                          THEN <<famKey.key>> ELSE <<>>,
                     ScriptKey        |-> scriptKey.key,
                     InternalKey      |-> internalKey.key,
                     Amount           |-> ToUint64(row.Amount),
                     ScriptKeyTweak   |->
                         [ RawKey |-> KeyDescriptor(rawScript.key,
                                          row.ScriptKeyFamily, row.ScriptKeyIndex),
                           Tweak  |-> row.ScriptKeyTweak ],
                     InternalKeyDesc  |-> KeyDescriptor(internalKey.key,
                                          row.TaprootKeyFamily, row.TaprootKeyIndex),
                     TaprootOutputKey |-> top.key,
                     CreationTime     |-> row.CreationTime,
                     ManagedAfter     |-> IF row.ManagedFrom # <<>>
                                          THEN row.ManagedFrom[1] ELSE ZeroTime ] ]

\* QueryAddrs from the call of FetchAddrs on: the rows the statement
\* returns, each made an address
QueryAddrsRows(d, arg) ==
    LET ids == FetchAddrs(d, arg)
        out == [n \in 1 .. Len(ids) |-> AddrFromRow(d, JoinedAddr(d, ids[n]))]
    IN  IF \E n \in 1 .. Len(ids) : out[n].err # OK
        THEN [err |-> out[CHOOSE n \in 1 .. Len(ids) : out[n].err # OK].err,
              addrs |-> <<>>]
        ELSE [err |-> OK, addrs |-> [n \in 1 .. Len(ids) |-> out[n].addr]]

\* QueryAddrs that does not hand the store the UnmanagedOnly flag
QueryAddrsNoUnmanagedFlag(d, params) ==
    QueryAddrsRows(d,
        [ CreatedAfter  |-> params.CreatedAfter,
          CreatedBefore |-> IF IsZero(params.CreatedBefore)
                            THEN Time(MaxInt64, FALSE)
                            ELSE params.CreatedBefore,
          NumOffset     |-> params.Offset,
          NumLimit      |-> IF params.Limit # 0 THEN params.Limit ELSE -1,
          UnmanagedOnly |-> FALSE ])

\* QueryAddrs that hands the store the limit 0 as it is
QueryAddrsZeroLimit(d, params) ==
    QueryAddrsRows(d,
        [ CreatedAfter  |-> params.CreatedAfter,
          CreatedBefore |-> IF IsZero(params.CreatedBefore)
                            THEN Time(MaxInt64, FALSE)
                            ELSE params.CreatedBefore,
          NumOffset     |-> params.Offset,
          NumLimit      |-> params.Limit,
          UnmanagedOnly |-> params.UnmanagedOnly ])

\* QueryAddrs that hands the store a zero CreatedBefore as it is
QueryAddrsZeroBefore(d, params) ==
    QueryAddrsRows(d,
        [ CreatedAfter  |-> params.CreatedAfter,
          CreatedBefore |-> params.CreatedBefore,
          NumOffset     |-> params.Offset,
          NumLimit      |-> IF params.Limit # 0 THEN params.Limit ELSE -1,
          UnmanagedOnly |-> params.UnmanagedOnly ])

\* TaroAddressBook.QueryAddrs: the error and the addresses returned.  A zero
\* CreatedBefore is replaced by the latest time, the limit 0 by -1.
QueryAddrs(d, params) ==
    QueryAddrsRows(d,
        [ CreatedAfter  |-> params.CreatedAfter,
          CreatedBefore |-> IF IsZero(params.CreatedBefore)
                            THEN Time(MaxInt64, FALSE)
                            ELSE params.CreatedBefore,
          NumOffset     |-> params.Offset,
          NumLimit      |-> IF params.Limit # 0 THEN params.Limit ELSE -1,
          UnmanagedOnly |-> params.UnmanagedOnly ])

\* fetchAddr that returns the error of the store as it is
fetchAddrStoreError(d, taprootOutputKey) ==
    LET id == AddrID(d, SchnorrSerializePubKey(taprootOutputKey))
        r  == AddrFromRow(d, JoinedAddr(d, id))
    IN  IF id = 0
        THEN [err |-> ErrNoRows, addr |-> <<>>]
        ELSE IF r.err # OK
             THEN [err |-> r.err, addr |-> <<>>]
             ELSE [err |-> OK,
                   addr |-> <<[r.addr EXCEPT
                                 !.TaprootOutputKey = taprootOutputKey,
                                 !.ManagedAfter = ZeroTime]>>]

\* fetchAddr: the address with the given taproot output key
fetchAddr(d, taprootOutputKey) ==
    LET id == AddrID(d, SchnorrSerializePubKey(taprootOutputKey))
        r  == AddrFromRow(d, JoinedAddr(d, id))
    IN  IF id = 0
        THEN [err |-> ErrNoAddr, addr |-> <<>>]
        ELSE IF r.err # OK
             THEN [err |-> r.err, addr |-> <<>>]
             ELSE [err |-> OK,
                   addr |-> <<[r.addr EXCEPT
                                 !.TaprootOutputKey = taprootOutputKey,
                                 !.ManagedAfter = ZeroTime]>>]

\* TaroAddressBook.AddrByTaprootOutput
AddrByTaprootOutput(d, key) == fetchAddr(d, key)

\* SetAddrManaged of the store: sets managed_from of the address with the key
StoreSetAddrManaged(d, arg) ==
    LET id == AddrID(d, arg.TaprootOutputKey)
    IN  IF id = 0 THEN Res(d, OK, 0)
        ELSE Res([d EXCEPT !.addrs[id].managed_from = arg.ManagedFrom], OK, 0)

\* SetAddrManaged handing the store a NULL time
SetAddrManagedNullTime(d, addr, managedFrom) ==
    LET r == StoreSetAddrManaged(d,
                 [ ManagedFrom      |-> <<>>,
                   TaprootOutputKey |->
                       SchnorrSerializePubKey(addr.TaprootOutputKey) ])
    IN  Res(ExecTx(d, r), r.err, 0)

\* TaroAddressBook.SetAddrManaged
SetAddrManagedTx(d, addr, managedFrom) ==
    LET r == StoreSetAddrManaged(d,
                 [ ManagedFrom      |-> <<StoreTime(managedFrom)>>,
                   TaprootOutputKey |-> SchnorrSerializePubKey(addr.TaprootOutputKey) ])
    IN  Res(ExecTx(d, r), r.err, 0)

-----------------------------------------------------------------------------
(* The address book: events *)

\* wire.MsgTx.TxHash: the transaction id, 2 bytes here
TxHash(tx) == <<tx.nonce, Len(tx.outs)>>

\* chainhash.NewHash: the bytes must have the length of a hash
NewHash(b) == [ok |-> Len(b) = 2, hash |-> b]

\* chainhash.NewHashFromStr: block hash strings are sequences of hex digits
\* (0 .. 15) of at most 2 digits here, most significant byte first
NewHashFromStr(str) ==
    IF Len(str) <= 2 /\ \A n \in 1 .. Len(str) : str[n] \in 0 .. 15
    THEN [ok |-> TRUE,
          hash |-> [n \in 1 .. 2 |->
                      IF n <= Len(str) THEN str[Len(str) + 1 - n] ELSE 0]]
    ELSE [ok |-> FALSE, hash |-> <<>>]

\* encodeOutpoint
encodeOutpoint(hash, index) == hash \o <<index>>

\* address.Taro.TaroCommitment, and TaroCommitment.TapscriptRoot of it
TaroCommitment(addr) == <<addr.Genesis.Tag, addr.Amount, addr.ScriptKey.x>>
TapscriptRoot(commitment, sibling) == commitment \o sibling

ChainTxID(d, txid) ==
    IF \E i \in Rows(d.chain_txns) : d.chain_txns[i].txid = txid
    THEN CHOOSE i \in Rows(d.chain_txns) : d.chain_txns[i].txid = txid
    ELSE 0

UtxoID(d, outpoint) ==
    IF \E i \in Rows(d.managed_utxos) : d.managed_utxos[i].outpoint = outpoint
    THEN CHOOSE i \in Rows(d.managed_utxos) : d.managed_utxos[i].outpoint = outpoint
    ELSE 0

\* an event key without the output index
EventIDNoIndex(d, addrID, txnID, index) ==
    IF \E i \in Rows(d.addr_events) :
           /\ d.addr_events[i].addr_id = addrID
           /\ d.addr_events[i].chain_txn_id = txnID
    THEN CHOOSE i \in Rows(d.addr_events) :
           /\ d.addr_events[i].addr_id = addrID
           /\ d.addr_events[i].chain_txn_id = txnID
    ELSE 0

\* the event with the key (address, chain transaction, output index), 0
\* when there is none
EventID(d, addrID, txnID, index) ==
    IF \E i \in Rows(d.addr_events) :
           /\ d.addr_events[i].addr_id = addrID
           /\ d.addr_events[i].chain_txn_id = txnID
           /\ d.addr_events[i].chain_txn_output_index = index
    THEN CHOOSE i \in Rows(d.addr_events) :
           /\ d.addr_events[i].addr_id = addrID
           /\ d.addr_events[i].chain_txn_id = txnID
           /\ d.addr_events[i].chain_txn_output_index = index
    ELSE 0

\* an update that writes NULL over a stored value
OverwriteWithNull(new, old) == new

\* COALESCE(new, old)
Coalesce(new, old) == IF new # <<>> THEN new ELSE old

\* UpsertChainTx, keyed by the txid: an update sets only the block fields
\* that are not NULL in the arguments
UpsertChainTx(d, arg) ==
    LET id == ChainTxID(d, arg.Txid)
    IN  IF id # 0
        THEN Res([d EXCEPT
                    !.chain_txns[id].block_height =
                        Coalesce(arg.BlockHeight, @),
                    !.chain_txns[id].block_hash =
                        Coalesce(arg.BlockHash, @)], OK, id)
        ELSE Res([d EXCEPT !.chain_txns = Append(@,
                    [ txid         |-> arg.Txid,
                      raw_tx       |-> arg.RawTx,
                      block_height |-> arg.BlockHeight,
                      block_hash   |-> arg.BlockHash ])],
                 OK, Len(d.chain_txns) + 1)

\* an upsert that leaves a stored UTXO as it is
UpsertManagedUTXOKeepFirst(d, arg) ==
    LET id    == UtxoID(d, arg.Outpoint)
        keyID == InternalKeyID(d, arg.RawKey)
    IN  IF keyID = 0 \/ arg.TxnID \notin Rows(d.chain_txns)
        THEN Res(d, ErrConstraint, 0)
        ELSE IF id # 0
        THEN Res(d, OK, id)
        ELSE Res([d EXCEPT !.managed_utxos = Append(@,
                    [ outpoint          |-> arg.Outpoint,
                      internal_key_id   |-> keyID,
                      amt_sats          |-> arg.AmtSats,
                      tapscript_sibling |-> arg.TapscriptSibling,
                      taro_root         |-> arg.TaroRoot,
                      txn_id            |-> arg.TxnID ])],
                 OK, Len(d.managed_utxos) + 1)

\* UpsertManagedUTXO, keyed by the outpoint: an update sets the tapscript
\* sibling, when one is given, and the commitment root.  The owning key
\* must be a stored internal key.
UpsertManagedUTXO(d, arg) ==
    LET id    == UtxoID(d, arg.Outpoint)
        keyID == InternalKeyID(d, arg.RawKey)
    IN  IF keyID = 0 \/ arg.TxnID \notin Rows(d.chain_txns)
        THEN Res(d, ErrConstraint, 0)
        ELSE IF id # 0
        THEN Res([d EXCEPT
                    !.managed_utxos[id].tapscript_sibling =
                        Coalesce(arg.TapscriptSibling, @),
                    !.managed_utxos[id].taro_root = arg.TaroRoot], OK, id)
        ELSE Res([d EXCEPT !.managed_utxos = Append(@,
                    [ outpoint          |-> arg.Outpoint,
                      internal_key_id   |-> keyID,
                      amt_sats          |-> arg.AmtSats,
                      tapscript_sibling |-> arg.TapscriptSibling,
                      taro_root         |-> arg.TaroRoot,
                      txn_id            |-> arg.TxnID ])],
                 OK, Len(d.managed_utxos) + 1)

\* a status column without its check
AnyStatus(status) == TRUE

\* the check constraint of the status column
ValidStatus(status) == status \in Statuses

\* UpsertAddrEvent on a table whose managed UTXO column has no constraint
UpsertAddrEventNoForeignKey(d, arg) ==
    LET addrID == AddrID(d, arg.TaprootOutputKey)
        txnID  == ChainTxID(d, arg.Txid)
        id     == EventID(d, addrID, txnID, arg.ChainTxnOutputIndex)
    IN  IF addrID = 0 \/ txnID = 0 \/ ~ValidStatus(arg.Status)
        THEN Res(d, ErrConstraint, 0)
        ELSE IF id # 0
        THEN Res([d EXCEPT
                    !.addr_events[id].status = arg.Status,
                    !.addr_events[id].asset_proof_id =
                        Coalesce(arg.AssetProofID, @),
                    !.addr_events[id].asset_id =
                        Coalesce(arg.AssetID, @)], OK, id)
        ELSE Res([d EXCEPT !.addr_events = Append(@,
                    [ creation_time          |-> StoreTime(arg.CreationTime),
                      addr_id                |-> addrID,
                      status                 |-> arg.Status,
                      chain_txn_id           |-> txnID,
                      chain_txn_output_index |-> arg.ChainTxnOutputIndex,
                      managed_utxo_id        |-> arg.ManagedUtxoID,
                      asset_proof_id         |-> arg.AssetProofID,
                      asset_id               |-> arg.AssetID ])],
                 OK, Len(d.addr_events) + 1)

\* an event upsert that leaves the status of a Completed event alone
UpsertAddrEventKeepCompleted(d, arg) ==
    LET addrID == AddrID(d, arg.TaprootOutputKey)
        txnID  == ChainTxID(d, arg.Txid)
        id     == EventID(d, addrID, txnID, arg.ChainTxnOutputIndex)
    IN  IF addrID = 0 \/ txnID = 0 \/ ~ValidStatus(arg.Status)
        THEN Res(d, ErrConstraint, 0)
        ELSE IF id # 0
        THEN Res([d EXCEPT
                    !.addr_events[id].status =
                        IF @ = StatusCompleted THEN @ ELSE arg.Status,
                    !.addr_events[id].asset_proof_id =
                        Coalesce(arg.AssetProofID, @),
                    !.addr_events[id].asset_id =
                        Coalesce(arg.AssetID, @)], OK, id)
        ELSE IF arg.ManagedUtxoID \notin Rows(d.managed_utxos)
        THEN Res(d, ErrConstraint, 0)
        ELSE Res([d EXCEPT !.addr_events = Append(@,
                    [ creation_time          |-> StoreTime(arg.CreationTime),
                      addr_id                |-> addrID,
                      status                 |-> arg.Status,
                      chain_txn_id           |-> txnID,
                      chain_txn_output_index |-> arg.ChainTxnOutputIndex,
                      managed_utxo_id        |-> arg.ManagedUtxoID,
                      asset_proof_id         |-> arg.AssetProofID,
                      asset_id               |-> arg.AssetID ])],
                 OK, Len(d.addr_events) + 1)

\* UpsertAddrEvent, keyed by (address, chain transaction, output index).
\* The address and the chain transaction are looked up by taproot output
\* key and txid and must be stored; the status must be a valid code.  An
\* update sets the status and the asset and proof ids that are given; an
\* insert must reference a stored managed UTXO.
UpsertAddrEvent(d, arg) ==
    LET addrID == AddrID(d, arg.TaprootOutputKey)
        txnID  == ChainTxID(d, arg.Txid)
        id     == EventID(d, addrID, txnID, arg.ChainTxnOutputIndex)
    IN  IF addrID = 0 \/ txnID = 0 \/ ~ValidStatus(arg.Status)
        THEN Res(d, ErrConstraint, 0)
        ELSE IF id # 0
        THEN Res([d EXCEPT
                    !.addr_events[id].status = arg.Status,
                    !.addr_events[id].asset_proof_id =
                        Coalesce(arg.AssetProofID, @),
                    !.addr_events[id].asset_id =
                        Coalesce(arg.AssetID, @)], OK, id)
        ELSE IF arg.ManagedUtxoID \notin Rows(d.managed_utxos)
        THEN Res(d, ErrConstraint, 0)
        ELSE Res([d EXCEPT !.addr_events = Append(@,
                    [ creation_time          |-> StoreTime(arg.CreationTime),
                      addr_id                |-> addrID,
                      status                 |-> arg.Status,
                      chain_txn_id           |-> txnID,
                      chain_txn_output_index |-> arg.ChainTxnOutputIndex,
                      managed_utxo_id        |-> arg.ManagedUtxoID,
                      asset_proof_id         |-> arg.AssetProofID,
                      asset_id               |-> arg.AssetID ])],
                 OK, Len(d.addr_events) + 1)

\* FetchAddrEvent: the event joined with its chain transaction, its managed
\* UTXO and the internal key of the UTXO
FetchAddrEvent(d, id) ==
    IF id \notin Rows(d.addr_events)
    THEN Res(d, ErrNoRows, <<>>)
    ELSE LET e    == d.addr_events[id]
             txn  == d.chain_txns[e.chain_txn_id]
             utxo == d.managed_utxos[e.managed_utxo_id]
         IN  Res(d, OK,
                 [ CreationTime       |-> e.creation_time,
                   Status             |-> e.status,
                   AssetProofID       |-> e.asset_proof_id,
                   AssetID            |-> e.asset_id,
                   Txid               |-> txn.txid,
                   ConfirmationHeight |-> txn.block_height,
                   OutputIndex        |-> e.chain_txn_output_index,
                   AmtSats            |-> <<utxo.amt_sats>>,
                   TapscriptSibling   |-> utxo.tapscript_sibling,
                   InternalKey        |->
                       d.internal_keys[utxo.internal_key_id].raw_key ])

\* QueryEventIDs: the ids of the events in the status range whose address
\* has the given taproot output key (nil: any address), by ascending id,
\* each with the taproot output key of its address
QueryEventIDs(d, query) ==
    LET keep == { i \in Rows(d.addr_events) :
                    /\ d.addr_events[i].status >= query.StatusFrom
                    /\ d.addr_events[i].status <= query.StatusTo
                    /\ \/ query.AddrTaprootKey.nil
                       \/ d.addrs[d.addr_events[i].addr_id].taproot_output_key
                              = query.AddrTaprootKey.bytes }
        ids  == SelectIDs([i \in Rows(d.addr_events) |-> i], keep)
    IN  [n \in 1 .. Len(ids) |->
            [ EventID          |-> ids[n],
              TaprootOutputKey |->
                  d.addrs[d.addr_events[ids[n]].addr_id].taproot_output_key ]]

\* FetchAssetProof: the proof stored for a script key
FetchAssetProof(d, scriptKey) ==
    IF \E i \in Rows(d.asset_proofs) : d.asset_proofs[i].script_key = scriptKey
    THEN LET i == CHOOSE i \in Rows(d.asset_proofs) :
                      d.asset_proofs[i].script_key = scriptKey
         IN  Res(d, OK, [ProofID |-> i, AssetID |-> d.asset_proofs[i].asset_id])
    ELSE Res(d, ErrNoRows, [ProofID |-> 0, AssetID |-> 0])

\* the zero uint32 / int64 of a NULL column
ValueOrZero(null) == IF null # <<>> THEN null[1] ELSE 0

\* fetchEvent
fetchEvent(d, eventID, addr) ==
    LET r           == FetchAddrEvent(d, eventID)
        dbEvent     == r.val
        internalKey == ParsePubKey(dbEvent.InternalKey)
        hash        == NewHash(dbEvent.Txid)
    IN  IF r.err # OK THEN [err |-> r.err, event |-> <<>>]
        ELSE IF ~internalKey.ok \/ ~hash.ok
        THEN [err |-> ErrDecode, event |-> <<>>]
        ELSE [err |-> OK,
              event |-> << [ ID                 |-> eventID,
                             CreationTime       |-> dbEvent.CreationTime,
                             Addr               |-> addr,
                             Status             |-> dbEvent.Status,
                             Outpoint           |->
                                 [ Hash  |-> hash.hash,
                                   Index |-> dbEvent.OutputIndex ],
                             Amt                |-> ValueOrZero(dbEvent.AmtSats),
                             InternalKey        |-> internalKey.key,
                             TapscriptSibling   |-> dbEvent.TapscriptSibling,
                             ConfirmationHeight |->
                                 ValueOrZero(dbEvent.ConfirmationHeight),
                             HasProof           |-> dbEvent.AssetProofID # <<>> ] >>]

\* the body of the transaction of GetOrCreateEvent.  now is time.Now();
\* fault names the step outside the statements of the store that fails, if
\* one does: "commitment" (addr.TaroCommitment() returns an error), "fetch"
\* (the read of the event in fetchEvent returns an error), or "none".
GetOrCreateEventBody(d, status, addr, walletTx, outputIdx, sibling, now, fault) ==
    LET txHash    == TxHash(walletTx.Tx)
        blockHash == NewHashFromStr(walletTx.BlockHash)
        txUpsert  == [ Txid        |-> txHash,
                       RawTx       |-> walletTx.Tx,
                       BlockHeight |-> IF walletTx.Confirmations > 0
                                       THEN <<walletTx.BlockHeight>> ELSE <<>>,
                       BlockHash   |-> IF walletTx.Confirmations > 0
                                       THEN blockHash.hash ELSE <<>> ]
        chainTx   == UpsertChainTx(d, txUpsert)
        taroRoot  == TapscriptRoot(TaroCommitment(addr), sibling)
        utxo      == UpsertManagedUTXO(chainTx.db,
                         [ RawKey           |-> SerializeCompressed(addr.InternalKey),
                           Outpoint         |-> encodeOutpoint(txHash, outputIdx),
                           AmtSats          |-> walletTx.OutputDetails[outputIdx + 1],
                           TapscriptSibling |-> sibling,
                           TaroRoot         |-> taroRoot,
                           TxnID            |-> chainTx.val ])
        event     == UpsertAddrEvent(utxo.db,
                         [ TaprootOutputKey    |->
                               SchnorrSerializePubKey(addr.TaprootOutputKey),
                           CreationTime        |-> now,
                           Status              |-> status,
                           Txid                |-> txHash,
                           ChainTxnOutputIndex |-> outputIdx,
                           ManagedUtxoID       |-> utxo.val,
                           AssetProofID        |-> <<>>,
                           AssetID             |-> <<>> ])
        fetched   == fetchEvent(event.db, event.val, addr)
    IN  IF walletTx.Confirmations > 0 /\ ~blockHash.ok
        THEN Res(d, ErrBlockHash, <<>>)
        ELSE IF chainTx.err # OK THEN Res(chainTx.db, chainTx.err, <<>>)
        ELSE IF fault = "commitment" THEN Res(chainTx.db, ErrCommitment, <<>>)
        ELSE IF utxo.err # OK THEN Res(utxo.db, utxo.err, <<>>)
        ELSE IF event.err # OK THEN Res(event.db, event.err, <<>>)
        ELSE IF fault = "fetch" THEN Res(event.db, ErrFetch, <<>>)
        ELSE Res(event.db, fetched.err, fetched.event)

\* GetOrCreateEvent without the transaction around its statements
GetOrCreateEventNoTx(d, status, addr, walletTx, outputIdx, sibling, now, fault) ==
    GetOrCreateEventBody(d, status, addr, walletTx, outputIdx, sibling, now,
                         fault)

\* the outcome of a call that does not return: the Go runtime panics
Panic == "panic: runtime error: index out of range"

\* TaroAddressBook.GetOrCreateEvent: the store after the call, the error and
\* the event returned.  Before it opens the transaction the method indexes
\* walletTx.OutputDetails with outputIdx, without a check of the length.
GetOrCreateEventTx(d, status, addr, walletTx, outputIdx, sibling, now, fault) ==
    LET r == GetOrCreateEventBody(d, status, addr, walletTx, outputIdx,
                                  sibling, now, fault)
    IN  IF outputIdx >= Len(walletTx.OutputDetails)
        THEN Res(d, Panic, <<>>)
        ELSE Res(ExecTx(d, r), r.err, IF r.err = OK THEN r.val ELSE <<>>)

\* a []byte: the nil slice and the slice of the bytes b
NilBytes == [nil |-> TRUE, bytes |-> <<>>]
Bytes(b) == [nil |-> FALSE, bytes |-> b]

\* address.EventQueryParams
EventQueryParams(key, statusFrom, statusTo) ==
    [ AddrTaprootOutputKey |-> key,
      StatusFrom |-> statusFrom, StatusTo |-> statusTo ]

\* QueryAddrEvents from the call of QueryEventIDs on: the events of the
\* ids the statement returns, each read with its address
QueryAddrEventsRows(d, sqlQuery) ==
    LET dbIDs    == QueryEventIDs(d, sqlQuery)
        one(ids) == LET top   == SchnorrParsePubKey(ids.TaprootOutputKey)
                        addr  == fetchAddr(d, top.key)
                        event == fetchEvent(d, ids.EventID, addr.addr[1])
                    IN  IF ~top.ok THEN [err |-> ErrDecode, event |-> <<>>]
                        ELSE IF addr.err # OK
                        THEN [err |-> addr.err, event |-> <<>>]
                        ELSE event
        out      == [n \in 1 .. Len(dbIDs) |-> one(dbIDs[n])]
    IN  IF \E n \in 1 .. Len(dbIDs) : out[n].err # OK
        THEN [err |-> out[CHOOSE n \in 1 .. Len(dbIDs) : out[n].err # OK].err,
              events |-> <<>>]
        ELSE [err |-> OK, events |-> [n \in 1 .. Len(dbIDs) |-> out[n].event[1]]]

\* QueryAddrEvents that leaves StatusFrom at its default
QueryAddrEventsDefaultFrom(d, params) ==
    QueryAddrEventsRows(d,
        [ StatusFrom     |-> StatusTransactionDetected,
          StatusTo       |-> IF params.StatusTo # <<>>
                             THEN params.StatusTo[1] ELSE StatusCompleted,
          AddrTaprootKey |-> IF Len(params.AddrTaprootOutputKey.bytes) > 0
                             THEN params.AddrTaprootOutputKey ELSE NilBytes ])

\* QueryAddrEvents that does not hand the store the key filter
QueryAddrEventsNoKey(d, params) ==
    QueryAddrEventsRows(d,
        [ StatusFrom     |-> IF params.StatusFrom # <<>>
                             THEN params.StatusFrom[1]
                             ELSE StatusTransactionDetected,
          StatusTo       |-> IF params.StatusTo # <<>>
                             THEN params.StatusTo[1] ELSE StatusCompleted,
          AddrTaprootKey |-> NilBytes ])

\* TaroAddressBook.QueryAddrEvents: the error and the events returned.  The
\* status range defaults to Detected .. Completed; the key filter is handed
\* to the store when its length is not 0.
QueryAddrEvents(d, params) ==
    QueryAddrEventsRows(d,
        [ StatusFrom     |-> IF params.StatusFrom # <<>>
                             THEN params.StatusFrom[1]
                             ELSE StatusTransactionDetected,
          StatusTo       |-> IF params.StatusTo # <<>>
                             THEN params.StatusTo[1] ELSE StatusCompleted,
          AddrTaprootKey |-> IF Len(params.AddrTaprootOutputKey.bytes) > 0
                             THEN params.AddrTaprootOutputKey ELSE NilBytes ])

\* CompleteEvent going on after FetchAssetProof found no proof
CompleteEventNoProofCheck(d, event, status, anchorPoint) ==
    LET proofData == FetchAssetProof(d, SerializeCompressed(event.Addr.ScriptKey))
        r == UpsertAddrEvent(d,
                 [ TaprootOutputKey    |->
                       SchnorrSerializePubKey(event.Addr.TaprootOutputKey),
                   CreationTime        |-> ZeroTime,
                   Status              |-> status,
                   Txid                |-> anchorPoint.Hash,
                   ChainTxnOutputIndex |-> anchorPoint.Index,
                   ManagedUtxoID       |-> 0,
                   AssetProofID        |-> <<proofData.val.ProofID>>,
                   AssetID             |-> <<proofData.val.AssetID>> ])
    IN  Res(ExecTx(d, r), r.err, 0)

\* TaroAddressBook.CompleteEvent: the store after the call and the error
CompleteEventTx(d, event, status, anchorPoint) ==
    LET scriptKeyBytes == SerializeCompressed(event.Addr.ScriptKey)
        proofData == FetchAssetProof(d, scriptKeyBytes)
        upsert    == UpsertAddrEvent(d,
                         [ TaprootOutputKey    |->
                               SchnorrSerializePubKey(event.Addr.TaprootOutputKey),
                           CreationTime        |-> ZeroTime,
                           Status              |-> status,
                           Txid                |-> anchorPoint.Hash,
                           ChainTxnOutputIndex |-> anchorPoint.Index,
                           ManagedUtxoID       |-> 0,
                           AssetProofID        |-> <<proofData.val.ProofID>>,
                           AssetID             |-> <<proofData.val.AssetID>> ])
        r == IF proofData.err # OK THEN Res(d, proofData.err, 0) ELSE upsert
    IN  Res(ExecTx(d, r), r.err, 0)

\* the asset store imports a proof for a script key: the proof row that
\* FetchAssetProof finds
ImportProofTx(d, scriptKey, assetID) ==
    IF FetchAssetProof(d, scriptKey).err = OK
    THEN Res(d, ErrConstraint, 0)
    ELSE Res([d EXCEPT !.asset_proofs = Append(@,
                 [script_key |-> scriptKey, asset_id |-> assetID])], OK, 0)

-----------------------------------------------------------------------------
(* Inputs: the address records callers hand to the address book *)

Gen1 == [FirstPrevOut |-> 1, Tag |-> 1, OutputIndex |-> 0, Type |-> 0]
Gen2 == [FirstPrevOut |-> 2, Tag |-> 2, OutputIndex |-> 1, Type |-> 1]

\* an address.AddrWithKeyInfo; Taro.InternalKey is the key of InternalKeyDesc
AddrWithKeyInfo(gen, fam, script, raw, tweak, internal, amt, top, created) ==
    [ Version          |-> 0,
      Genesis          |-> gen,
      FamilyKey        |-> fam,
      ScriptKey        |-> script,
      InternalKey      |-> internal.PubKey,
      Amount           |-> amt,
      ScriptKeyTweak   |-> [RawKey |-> raw, Tweak |-> tweak],
      InternalKeyDesc  |-> internal,
      TaprootOutputKey |-> top,
      CreationTime     |-> created,
      ManagedAfter     |-> ZeroTime ]

Addr1 ==
    AddrWithKeyInfo(Gen1, <<>>, PubKey(2, TRUE),
        KeyDescriptor(PubKey(3, FALSE), 1, 0), <<7>>,
        KeyDescriptor(PubKey(4, FALSE), 2, 1),
        5, PubKey(1, FALSE), Time(10, TRUE))

\* uses the internal key of Addr1 under another key locator; the record
\* says it is managed, and it is created a second before the latest time
Addr2 ==
    [ AddrWithKeyInfo(Gen2, <<PubKey(3, TRUE)>>, PubKey(1, FALSE),
          KeyDescriptor(PubKey(2, FALSE), 1, 1), <<>>,
          KeyDescriptor(PubKey(4, FALSE), 2, 2),
          12, PubKey(2, FALSE), Time(MaxInt64 - 1, TRUE))
      EXCEPT !.ManagedAfter = Time(30, TRUE) ]

\* has the taproot output key of Addr1
Addr3 ==
    AddrWithKeyInfo(Gen1, <<>>, PubKey(3, TRUE),
        KeyDescriptor(PubKey(1, TRUE), 1, 2), <<8>>,
        KeyDescriptor(PubKey(1, FALSE), 2, 3),
        1, PubKey(1, FALSE), Time(10, FALSE))

\* uses the internal key of Addr1 under the same key locator; created earlier
Addr4 ==
    AddrWithKeyInfo(Gen1, <<PubKey(2, FALSE)>>, PubKey(4, TRUE),
        KeyDescriptor(PubKey(3, TRUE), 1, 3), <<9>>,
        KeyDescriptor(PubKey(4, FALSE), 2, 1),
        7, PubKey(3, FALSE), Time(5, TRUE))

AddrInputs == {Addr1, Addr2, Addr3, Addr4}

\* an address whose raw script key and internal key are the same public
\* key, the internal key of Addr1, under two key locators
AddrOneKey ==
    AddrWithKeyInfo(Gen1, <<>>, PubKey(1, TRUE),
        KeyDescriptor(PubKey(4, FALSE), 1, 5), <<6>>,
        KeyDescriptor(PubKey(4, FALSE), 2, 1),
        3, PubKey(4, FALSE), Time(20, TRUE))

Batches == UNION { [1 .. n -> AddrInputs] : n \in 1 .. MaxBatch }

\* the times SetAddrManaged is given
ManagedTimes == {Time(30, TRUE), Time(40, TRUE)}

\* the same and the zero time, for a call that is looked at and not taken
ManagedTimesOrZero == ManagedTimes \cup {ZeroTime}

TaprootKeys == { a.TaprootOutputKey : a \in AddrInputs }

\* the limits and offsets of the queries
Limits == 0 .. 2
Offsets == 0 .. 3

\* the creation time bounds of the queries: none, a time before every
\* creation time, the creation time of Addr1, the latest time
CreationBounds ==
    {ZeroTime, Time(1, TRUE), Addr1.CreationTime, Time(MaxInt64, FALSE)}

\* the queries with a limit and an offset
PagedQueries ==
    { QueryParams(ZeroTime, ZeroTime, limit, offset, unmanagedOnly) :
          limit \in Limits, offset \in Offsets, unmanagedOnly \in BOOLEAN }

\* the queries with creation time bounds
TimedQueries ==
    { QueryParams(after, before, 0, 0, unmanagedOnly) :
          after \in CreationBounds, before \in CreationBounds,
          unmanagedOnly \in BOOLEAN }

\* the queries QueryAddrs is called with
AddrQueries == PagedQueries \cup TimedQueries

-----------------------------------------------------------------------------
(* The calls of the address book *)

\* the last call of an address method and its error
Call(op, err) == [op |-> op, err |-> err]

InsertAddrs(addrs) ==
    LET r == InsertAddrsTx(db, addrs)
    IN  /\ db' = r.db
        /\ last' = Call("InsertAddrs", r.err)
        /\ inserted' = IF r.err = OK THEN inserted \o addrs ELSE inserted
        /\ UNCHANGED txs

SetAddrManaged(addr, managedFrom) ==
    LET r == SetAddrManagedTx(db, addr, managedFrom)
    IN  /\ db' = r.db
        /\ last' = Call("SetAddrManaged", r.err)
        /\ UNCHANGED <<inserted, txs>>

QueryAddrsCall(params) ==
    LET r == QueryAddrs(db, params)
    IN  /\ last' = Call("QueryAddrs", r.err)
        /\ UNCHANGED <<db, inserted, txs>>

AddrByTaprootOutputCall(key) ==
    LET r == AddrByTaprootOutput(db, key)
    IN  /\ last' = Call("AddrByTaprootOutput", r.err)
        /\ UNCHANGED <<db, inserted, txs>>

Init ==
    /\ db = EmptyDB
    /\ last = Call("none", OK)
    /\ inserted = <<>>
    /\ txs = <<>>

Next ==
    \/ \E addrs \in Batches : InsertAddrs(addrs)
    \/ \E addr \in AddrInputs, t \in ManagedTimes : SetAddrManaged(addr, t)
    \/ \E params \in AddrQueries : QueryAddrsCall(params)
    \/ \E key \in TaprootKeys : AddrByTaprootOutputCall(key)

Spec == Init /\ [][Next]_vars

-----------------------------------------------------------------------------
(* The calls of the event store, on an address book that holds Addr1 and    *)
(* Addr4.  Addr2 is an address record that is not stored.  The calls leave  *)
(* last alone: their results are read off the operators.                    *)

Tx1 == [nonce |-> 1, outs |-> <<100, 200>>]
Tx2 == [nonce |-> 2, outs |-> <<300>>]

\* an lndclient.Transaction
WalletTx(tx, confirmations, blockHash, blockHeight) ==
    [ Tx            |-> tx,
      Confirmations |-> confirmations,
      BlockHash     |-> blockHash,
      BlockHeight   |-> blockHeight,
      OutputDetails |-> tx.outs ]

Tx1Unconfirmed == WalletTx(Tx1, 0, <<>>, 0)
Tx1Confirmed   == WalletTx(Tx1, 3, <<10, 11>>, 7)
\* a block hash string that is too long to parse
Tx1BadHash     == WalletTx(Tx1, 1, <<10, 11, 12>>, 7)
Tx2Unconfirmed == WalletTx(Tx2, 0, <<>>, 0)

\* status 4 is not a status code
EventStatuses == Statuses \cup {4}

Siblings == {<<>>, <<1>>, <<2>>}

FirstSeen == Time(50, TRUE)
SeenAgain == Time(60, TRUE)

EventCall(status, addr, walletTx, outputIdx, sibling, now, fault) ==
    [ status |-> status, addr |-> addr, walletTx |-> walletTx,
      outputIdx |-> outputIdx, sibling |-> sibling, now |-> now,
      fault |-> fault ]

\* The calls of GetOrCreateEvent.  Output 0 of Tx1 pays Addr1 and is
\* reported with every status, sibling and confirmation state; output 1 of
\* Tx1 pays Addr1 too, and output 0 of Tx2 pays Addr4.  The other calls are
\* the ones that fail: Addr2 is not stored, the internal key of Addr3 is
\* not stored, a block hash does not parse, a commitment cannot be derived,
\* the event cannot be read back.
EventCalls ==
    { EventCall(s, Addr1, w, 0, sib, FirstSeen, "none") :
          s \in EventStatuses, w \in {Tx1Unconfirmed, Tx1Confirmed},
          sib \in Siblings }
    \cup { EventCall(s, Addr1, Tx1Unconfirmed, 0, sib, SeenAgain, "none") :
          s \in {0, 1}, sib \in {<<>>, <<1>>} }
    \cup { EventCall(s, Addr1, Tx1Unconfirmed, 1, <<>>, FirstSeen, "none") :
          s \in {StatusTransactionDetected, 4} }
    \cup { EventCall(0, Addr4, Tx2Unconfirmed, 0, <<>>, FirstSeen, "none"),
           EventCall(0, Addr2, Tx1Unconfirmed, 0, <<1>>, FirstSeen, "none"),
           EventCall(0, Addr3, Tx2Unconfirmed, 0, <<>>, FirstSeen, "none"),
           EventCall(1, Addr1, Tx1BadHash, 0, <<>>, FirstSeen, "none"),
           EventCall(4, Addr1, Tx1BadHash, 0, <<>>, FirstSeen, "none"),
           EventCall(1, Addr1, Tx1Confirmed, 0, <<2>>, FirstSeen, "commitment"),
           EventCall(1, Addr1, Tx1Confirmed, 1, <<2>>, FirstSeen, "fetch") }

\* the outpoints CompleteEvent is given as anchor: the three outputs above
\* and an output of a transaction the store does not know
Tx3 == [nonce |-> 3, outs |-> <<400>>]
AnchorPoints ==
    { [Hash |-> TxHash(Tx1), Index |-> 0], [Hash |-> TxHash(Tx1), Index |-> 1],
      [Hash |-> TxHash(Tx2), Index |-> 0], [Hash |-> TxHash(Tx3), Index |-> 0] }

CompleteStatuses == {StatusCompleted, 4}

\* the event the upsert of a call finds, 0 when there is none
StoredEventID(d, addr, txid, index) ==
    EventID(d, AddrID(d, SchnorrSerializePubKey(addr.TaprootOutputKey)),
            ChainTxID(d, txid), index)

\* the statements of GetOrCreateEvent applied to a call record
GetOrCreateEventBodyOf(d, c) ==
    GetOrCreateEventBody(d, c.status, c.addr, c.walletTx, c.outputIdx,
                         c.sibling, c.now, c.fault)

\* GetOrCreateEvent applied to a call record
GetOrCreateEventOf(d, c) ==
    GetOrCreateEventTx(d, c.status, c.addr, c.walletTx, c.outputIdx,
                       c.sibling, c.now, c.fault)

\* an event is first reported at FirstSeen
GetOrCreateEvent(c) ==
    LET r == GetOrCreateEventOf(db, c)
    IN  /\ \/ c.now = FirstSeen
           \/ StoredEventID(db, c.addr, TxHash(c.walletTx.Tx), c.outputIdx) # 0
        /\ db' = r.db
        /\ UNCHANGED <<last, inserted, txs>>

\* the status bounds of the queries of events: none, every valid code and
\* the code 123
StatusBounds == {<<>>} \cup { <<s>> : s \in Statuses \cup {123} }

\* the key filters of the queries of events: nil, the empty slice, bytes
\* that are no key, the keys of the stored Addr1 and Addr4 and the key of
\* Addr2, which is not stored
KeyFilters ==
    { NilBytes, Bytes(<<>>), Bytes(<<99, 99>>) }
    \cup { Bytes(SchnorrSerializePubKey(a.TaprootOutputKey)) :
               a \in {Addr1, Addr2, Addr4} }

\* the events a caller holds: the ones QueryAddrEvents returns
HeldEvents(d) ==
    QueryAddrEvents(d, EventQueryParams(NilBytes, <<>>, <<>>)).events

\* the caller hands CompleteEvent an event it read with QueryAddrEvents
CompleteEvent(n, status, anchorPoint) ==
    LET r == CompleteEventTx(db, HeldEvents(db)[n], status, anchorPoint)
    IN  /\ n \in 1 .. Len(HeldEvents(db))
        /\ db' = r.db
        /\ UNCHANGED <<last, inserted, txs>>

\* the asset store imports the proof of the asset sent to Addr1
ImportProof(addr) ==
    LET r == ImportProofTx(db, SerializeCompressed(addr.ScriptKey),
                           addr.Genesis.Tag)
    IN  /\ r.err = OK
        /\ db' = r.db
        /\ UNCHANGED <<last, inserted, txs>>

InitEvents ==
    /\ db = InsertAddrsTx(EmptyDB, <<Addr1, Addr4>>).db
    /\ last = Call("InsertAddrs", OK)
    /\ inserted = <<Addr1, Addr4>>
    /\ txs = <<>>

NextEvents ==
    \/ \E c \in EventCalls : GetOrCreateEvent(c)
    \/ \E n \in 1 .. MaxEvents, status \in CompleteStatuses, anchorPoint \in AnchorPoints :
           CompleteEvent(n, status, anchorPoint)
    \/ ImportProof(Addr1)

SpecEvents == InitEvents /\ [][NextEvents]_vars

-----------------------------------------------------------------------------
(* Claims about addresses *)

\* assertEqualAddr on the fields an address is stored with: every field is
\* equal, the creation time to the second
EqualAddr(expected, actual) ==
    /\ actual.Version = expected.Version
    /\ actual.Genesis = expected.Genesis
    /\ actual.FamilyKey = expected.FamilyKey
    /\ actual.ScriptKey = expected.ScriptKey
    /\ actual.InternalKey = expected.InternalKey
    /\ actual.Amount = expected.Amount
    /\ actual.ScriptKeyTweak = expected.ScriptKeyTweak
    /\ actual.InternalKeyDesc = expected.InternalKeyDesc
    /\ actual.TaprootOutputKey = expected.TaprootOutputKey
    /\ actual.CreationTime.unix = expected.CreationTime.unix

\* both reads of the stored address a return a record equal to a
ReadsBack(a) ==
    LET q  == QueryAddrs(db, NoParams)
        by == AddrByTaprootOutput(db, a.TaprootOutputKey)
    IN  /\ q.err = OK
        /\ \E n \in 1 .. Len(q.addrs) : EqualAddr(a, q.addrs[n])
        /\ by.err = OK
        /\ EqualAddr(a, by.addr[1])

\* an unfiltered QueryAddrs returns the stored addresses in insertion order
InsertionOrder ==
    LET q == QueryAddrs(db, NoParams)
    IN  /\ q.err = OK
        /\ Len(q.addrs) = Len(inserted)
        /\ \A n \in 1 .. Len(inserted) :
               q.addrs[n].TaprootOutputKey = inserted[n].TaprootOutputKey

\* the key descriptors and the tweaked script key an address record supplies
KeyDescs(a) == {a.ScriptKeyTweak.RawKey, a.InternalKeyDesc}

\* no stored address (a itself included) supplies a public key of a with
\* another key locator, or the script key of a with another tweak or raw key
KeysAgree(a) ==
    \A n \in 1 .. Len(inserted) :
        LET b == inserted[n]
        IN  /\ \A x \in KeyDescs(a), y \in KeyDescs(a) \cup KeyDescs(b) :
                   x.PubKey = y.PubKey => x = y
            /\ a.ScriptKey = b.ScriptKey =>
                   a.ScriptKeyTweak = b.ScriptKeyTweak

\* C1 as stated: every address a successful InsertAddrs stored is returned
\* by AddrByTaprootOutput and by an unfiltered QueryAddrs equal to the input
\* in every field (the creation time to the second), and QueryAddrs returns
\* the addresses in insertion order.
C1_RoundTripAll ==
    /\ InsertionOrder
    /\ \A n \in 1 .. Len(inserted) : ReadsBack(inserted[n])

\* C1 amended: the same for every stored address whose public keys no
\* stored address supplies with another key locator, tweak or raw key.
C1_RoundTrip ==
    /\ InsertionOrder
    /\ \A n \in 1 .. Len(inserted) :
           KeysAgree(inserted[n]) => ReadsBack(inserted[n])

\* two addresses that share an internal key are stored and read back
C1_Witness ==
    /\ Len(inserted) = 2
    /\ \A n \in 1 .. 2 : KeysAgree(inserted[n])
    /\ inserted[1].InternalKeyDesc = inserted[2].InternalKeyDesc
    /\ last.op = "QueryAddrs"
    /\ last.err = OK
    /\ Len(QueryAddrs(db, NoParams).addrs) = 2

\* the batch holds a taproot output key that is stored or that an earlier
\* address of the batch has
DuplicateKey(d, addrs) ==
    \E i \in 1 .. Len(addrs) :
        \/ AddrID(d, SchnorrSerializePubKey(addrs[i].TaprootOutputKey)) # 0
        \/ \E j \in 1 .. (i - 1) :
               addrs[j].TaprootOutputKey = addrs[i].TaprootOutputKey

UniqueTaprootOutputKeys ==
    \A i, j \in Rows(db.addrs) :
        db.addrs[i].taproot_output_key = db.addrs[j].taproot_output_key => i = j

\* C2: InsertAddrs of a batch with a taproot output key that is stored, or
\* that appears earlier in the batch, fails with a constraint error and
\* adds no address row; no two address rows ever share a taproot output key.
C2_DuplicateKeyRejected ==
    /\ UniqueTaprootOutputKeys
    /\ \A addrs \in Batches :
           DuplicateKey(db, addrs) =>
               LET r == InsertAddrsTx(db, addrs)
               IN  r.err = ErrConstraint /\ r.db.addrs = db.addrs

\* a batch was rejected; the store holds addresses, and it rejects a batch
\* whose first address is new and whose second address repeats a key
C2_Witness ==
    /\ last.op = "InsertAddrs"
    /\ last.err = ErrConstraint
    /\ db.addrs # <<>>
    /\ \E addrs \in Batches :
           /\ Len(addrs) = 2
           /\ AddrID(db, SchnorrSerializePubKey(addrs[1].TaprootOutputKey)) = 0
           /\ DuplicateKey(db, addrs)
           /\ InsertAddrsTx(db, addrs).err = ErrConstraint

\* C3: an InsertAddrs call that fails leaves the whole store as it was
\* before the call: no address, key or genesis row of the batch is kept.
C3_InsertAddrsAllOrNothing ==
    \A addrs \in Batches :
        LET r == InsertAddrsTx(db, addrs)
        IN  r.err # OK => r.db = db

\* a batch failed; the store fails a batch at its second address after the
\* statements of the first address, with keys and a genesis the store does
\* not hold, have written their rows
C3_Witness ==
    /\ last.op = "InsertAddrs"
    /\ last.err # OK
    /\ \E addrs \in Batches :
           /\ Len(addrs) = 2
           /\ InsertAddrsTx(db, addrs).err # OK
           /\ InsertOneAddr(db, addrs[1]).err = OK
           /\ InsertOneAddr(db, addrs[1]).db # db
           /\ AddrID(db, SchnorrSerializePubKey(addrs[1].TaprootOutputKey)) = 0
           /\ InternalKeyID(db,
                  SerializeCompressed(addrs[1].ScriptKeyTweak.RawKey.PubKey)) = 0
           /\ GenesisPointID(db, addrs[1].Genesis.FirstPrevOut) = 0

-----------------------------------------------------------------------------
(* Claims about events.  A claim about a call is stated of the result the  *)
(* call has in every reachable store, for every call of EventCalls.        *)

\* the event rows with the key of the call c: the taproot output key of the
\* address, the txid of the transaction and the output index
EventRows(d, c) ==
    { i \in Rows(d.addr_events) :
        /\ d.addrs[d.addr_events[i].addr_id].taproot_output_key
               = SchnorrSerializePubKey(c.addr.TaprootOutputKey)
        /\ d.chain_txns[d.addr_events[i].chain_txn_id].txid
               = TxHash(c.walletTx.Tx)
        /\ d.addr_events[i].chain_txn_output_index = c.outputIdx }

\* the event of the key of c as a caller holding the address c.addr reads it
StoredEvent(d, c) ==
    fetchEvent(d, CHOOSE i \in EventRows(d, c) : TRUE, c.addr).event[1]

\* the managed UTXO of the event row id
UtxoOfEvent(d, id) == d.managed_utxos[d.addr_events[id].managed_utxo_id]

\* C4: there is exactly one event row per (address taproot output key, txid,
\* output index).  A successful GetOrCreateEvent leaves exactly one row with
\* the key of the call and returns it; for a key that has a row it returns
\* the ID of that row and adds no row; for a new key it adds one row whose ID
\* is greater than every existing ID, the i-th event created having ID i.
C4_OneEventPerKey ==
    /\ \A i, j \in Rows(db.addr_events) :
           ( /\ db.addr_events[i].addr_id = db.addr_events[j].addr_id
             /\ db.addr_events[i].chain_txn_id = db.addr_events[j].chain_txn_id
             /\ db.addr_events[i].chain_txn_output_index
                    = db.addr_events[j].chain_txn_output_index ) => i = j
    /\ \A n \in 1 .. Len(HeldEvents(db)) : HeldEvents(db)[n].ID = n
    /\ \A c \in EventCalls :
           LET r == GetOrCreateEventOf(db, c)
               before == EventRows(db, c)
           IN  r.err = OK =>
                 /\ EventRows(r.db, c) = {r.val[1].ID}
                 /\ r.val[1].Outpoint =
                        [Hash |-> TxHash(c.walletTx.Tx), Index |-> c.outputIdx]
                 /\ before # {} =>
                        /\ r.val[1].ID \in before
                        /\ Len(r.db.addr_events) = Len(db.addr_events)
                 /\ before = {} =>
                        /\ r.val[1].ID = Len(db.addr_events) + 1
                        /\ \A i \in Rows(db.addr_events) : r.val[1].ID > i
                        /\ Len(r.db.addr_events) = Len(db.addr_events) + 1

\* two events are stored, of the same address and transaction at different
\* outputs; a call for the key of the second succeeds, and a call for a
\* third key succeeds and returns the ID 3
C4_Witness ==
    /\ Len(db.addr_events) = 2
    /\ db.addr_events[1].addr_id = db.addr_events[2].addr_id
    /\ db.addr_events[1].chain_txn_id = db.addr_events[2].chain_txn_id
    /\ \E c \in EventCalls :
           EventRows(db, c) = {2} /\ GetOrCreateEventOf(db, c).err = OK
    /\ \E c \in EventCalls :
           /\ EventRows(db, c) = {}
           /\ GetOrCreateEventOf(db, c).err = OK
           /\ GetOrCreateEventOf(db, c).val[1].ID = 3

SameAsStored(d, c) ==
    /\ c.status = StoredEvent(d, c).Status
    /\ c.sibling = StoredEvent(d, c).TapscriptSibling
    /\ c.walletTx.Confirmations > 0 =>
           c.walletTx.BlockHeight = StoredEvent(d, c).ConfirmationHeight

\* C6: a successful repeat GetOrCreateEvent for a key that has an event,
\* with the status Confirmed, a transaction with confirmations and no
\* tapscript sibling, returns the event with the status Confirmed and the
\* block height of the transaction as confirmation height, and with the ID,
\* outpoint, amount, internal key and tapscript sibling it had; a repeat
\* call that reports what the event shows returns the event as it was.
C6_RepeatCallKeepsEvent ==
    \A c \in EventCalls :
        LET r == GetOrCreateEventOf(db, c)
            p == StoredEvent(db, c)
        IN  (EventRows(db, c) # {} /\ r.err = OK) =>
              /\ ( /\ c.status = StatusTransactionConfirmed
                   /\ c.walletTx.Confirmations > 0
                   /\ c.sibling = <<>> ) =>
                     /\ r.val[1].Status = StatusTransactionConfirmed
                     /\ r.val[1].ConfirmationHeight = c.walletTx.BlockHeight
                     /\ r.val[1].ID = p.ID
                     /\ r.val[1].Outpoint = p.Outpoint
                     /\ r.val[1].Amt = p.Amt
                     /\ r.val[1].InternalKey = p.InternalKey
                     /\ r.val[1].TapscriptSibling = p.TapscriptSibling
              /\ SameAsStored(db, c) => r.val[1] = p

\* an unconfirmed event in state Detected is stored with a sibling; the
\* repeat call with Confirmed, confirmations and no sibling succeeds, and so
\* does a later repeat of the call that created the event
C6_Witness ==
    /\ \E c \in EventCalls :
           /\ EventRows(db, c) # {}
           /\ StoredEvent(db, c).Status = StatusTransactionDetected
           /\ StoredEvent(db, c).TapscriptSibling # <<>>
           /\ StoredEvent(db, c).ConfirmationHeight = 0
           /\ c.status = StatusTransactionConfirmed
           /\ c.walletTx.Confirmations > 0
           /\ c.sibling = <<>>
           /\ GetOrCreateEventOf(db, c).err = OK
    /\ \E c \in EventCalls :
           /\ EventRows(db, c) # {}
           /\ SameAsStored(db, c)
           /\ c.now # StoredEvent(db, c).CreationTime
           /\ c.sibling # <<>>
           /\ GetOrCreateEventOf(db, c).err = OK

\* no step of the call c before the upsert of the event fails: the block
\* hash parses and the commitment is derived
ReachesEventUpsert(c) ==
    /\ c.fault # "commitment"
    /\ c.walletTx.Confirmations > 0 => NewHashFromStr(c.walletTx.BlockHash).ok

C8_FailureWritesNothing ==
    \A c \in EventCalls :
        LET r == GetOrCreateEventOf(db, c)
        IN  r.err # OK =>
              /\ r.db.chain_txns = db.chain_txns
              /\ r.db.managed_utxos = db.managed_utxos
              /\ r.db.addr_events = db.addr_events
              /\ r.db = db

\* the statements of the call c fail with the error err after writes to the
\* tables that differ from the store in the way changed tells
FailsAfterWrites(c, err, changed(_)) ==
    /\ GetOrCreateEventBodyOf(db, c).err = err
    /\ GetOrCreateEventOf(db, c).err = err
    /\ changed(GetOrCreateEventBodyOf(db, c).db)

\* an event is stored, and calls fail at each step: before any write on the
\* block hash, after the chain transaction upsert on the commitment and on
\* the UTXO upsert, after the UTXO upsert on the event upsert, and after
\* the event upsert on the read of the event
C8_Witness ==
    /\ db.addr_events # <<>>
    /\ \E c \in EventCalls : GetOrCreateEventOf(db, c).err = ErrBlockHash
    /\ \E c \in EventCalls :
           FailsAfterWrites(c, ErrCommitment,
               LAMBDA d : d.chain_txns # db.chain_txns)
    /\ \E c \in EventCalls :
           /\ InternalKeyID(db, SerializeCompressed(c.addr.InternalKey)) = 0
           /\ FailsAfterWrites(c, ErrConstraint,
                  LAMBDA d : /\ d.chain_txns # db.chain_txns
                             /\ d.managed_utxos = db.managed_utxos)
    /\ \E c \in EventCalls :
           FailsAfterWrites(c, ErrConstraint,
               LAMBDA d : /\ d.managed_utxos # db.managed_utxos
                          /\ d.addr_events = db.addr_events)
    /\ \E c \in EventCalls :
           FailsAfterWrites(c, ErrFetch,
               LAMBDA d : d.addr_events # db.addr_events)

\* the proof FetchAssetProof finds for the script key of the address of an
\* event
ProofOf(d, event) ==
    FetchAssetProof(d, SerializeCompressed(event.Addr.ScriptKey))

\* C9: CompleteEvent of an event a caller holds fails when no asset proof is
\* stored for the script key of the address of the event, and then leaves
\* the store as it was.  When a proof is stored, CompleteEvent with a valid
\* status and the outpoint of the event succeeds, and the event read back
\* by its ID and by QueryAddrEvents has HasProof set.
C9_CompleteNeedsProof ==
    \A n \in 1 .. Len(HeldEvents(db)), status \in CompleteStatuses,
       anchorPoint \in AnchorPoints :
        LET event == HeldEvents(db)[n]
            r == CompleteEventTx(db, event, status, anchorPoint)
        IN  /\ ProofOf(db, event).err # OK => (r.err # OK /\ r.db = db)
            /\ ( /\ ProofOf(db, event).err = OK
                 /\ status = StatusCompleted
                 /\ anchorPoint = event.Outpoint ) =>
                   /\ r.err = OK
                   /\ fetchEvent(r.db, event.ID, event.Addr).event[1].HasProof
                   /\ \E m \in 1 .. Len(HeldEvents(r.db)) :
                          /\ HeldEvents(r.db)[m].ID = event.ID
                          /\ HeldEvents(r.db)[m].HasProof
                          /\ HeldEvents(r.db)[m].Status = StatusCompleted

\* a proof is stored for the script key of Addr1 and none for that of Addr4;
\* CompleteEvent of an event of Addr4 fails and CompleteEvent of an event of
\* Addr1 that has no proof yet succeeds
C9_Witness ==
    \E n, m \in 1 .. Len(HeldEvents(db)) :
        LET without == HeldEvents(db)[n]
            with    == HeldEvents(db)[m]
        IN  /\ ProofOf(db, without).err # OK
            /\ CompleteEventTx(db, without, StatusCompleted,
                               without.Outpoint).err = ErrNoRows
            /\ ProofOf(db, with).err = OK
            /\ ~with.HasProof
            /\ CompleteEventTx(db, with, StatusCompleted, with.Outpoint).err = OK

\* C10 as stated: a successful CompleteEvent(event, status, anchorPoint)
\* leaves the number of event rows as it was, and the row with the ID of
\* the event then has the given status and the asset and proof linkage,
\* also when anchorPoint is not the outpoint of the event.
C10_CompleteUpdatesGivenEvent ==
    \A n \in 1 .. Len(HeldEvents(db)), status \in CompleteStatuses,
       anchorPoint \in AnchorPoints :
        LET event == HeldEvents(db)[n]
            r == CompleteEventTx(db, event, status, anchorPoint)
        IN  r.err = OK =>
              /\ Len(r.db.addr_events) = Len(db.addr_events)
              /\ r.db.addr_events[event.ID].status = status
              /\ r.db.addr_events[event.ID].asset_proof_id # <<>>
              /\ r.db.addr_events[event.ID].asset_id # <<>>

\* the event row i of the store d has the asset and proof linkage
Linked(d, i) ==
    i \in Rows(d.addr_events) /\ d.addr_events[i].asset_proof_id # <<>>

\* GetOrCreateEvent and the import of a proof attach no linkage: an event
\* row is created without it and keeps what it has
AttachNoLinkage ==
    /\ \A c \in EventCalls, i \in 1 .. MaxEvents :
           Linked(GetOrCreateEventOf(db, c).db, i) <=> Linked(db, i)
    /\ \A i \in 1 .. MaxEvents :
           LET r == ImportProofTx(db, SerializeCompressed(Addr1.ScriptKey),
                                  Addr1.Genesis.Tag)
           IN  Linked(r.db, i) <=> Linked(db, i)

\* C11 as stated: an event gets the asset and proof linkage only from a
\* successful CompleteEvent for it: GetOrCreateEvent attaches none, whatever
\* the status, and a CompleteEvent attaches it to no event but the one it
\* is given.
C11_LinkageOnlyByCompleteEvent ==
    /\ AttachNoLinkage
    /\ \A n \in 1 .. Len(HeldEvents(db)), status \in CompleteStatuses,
          anchorPoint \in AnchorPoints, i \in 1 .. MaxEvents :
           LET event == HeldEvents(db)[n]
               r == CompleteEventTx(db, event, status, anchorPoint)
           IN  (Linked(r.db, i) /\ ~Linked(db, i)) => i = event.ID

\* C12 as stated: Completed is terminal.  No GetOrCreateEvent call for the
\* (address, txid, output index) of a Completed event changes its status.
C12_CompletedIsTerminal ==
    \A c \in EventCalls : \A i \in EventRows(db, c) :
        db.addr_events[i].status = StatusCompleted
            => GetOrCreateEventOf(db, c).db.addr_events[i].status
                   = StatusCompleted

\* C12: Completed is not terminal for GetOrCreateEvent.  A successful call
\* for the (address, txid, output index) of a Completed event sets the
\* status of the event to the status of the call, so the event stays
\* Completed only when the call says Completed; the call returns the event
\* under its ID with that status, adds no row and keeps the asset and proof
\* linkage of the event.  A failed call changes nothing.
C12_CompletedOverwritten ==
    \A c \in EventCalls : \A i \in EventRows(db, c) :
        LET r == GetOrCreateEventOf(db, c)
        IN  db.addr_events[i].status = StatusCompleted =>
              /\ r.err = OK =>
                   /\ r.db.addr_events[i].status = c.status
                   /\ r.val[1].ID = i
                   /\ r.val[1].Status = c.status
                   /\ Len(r.db.addr_events) = Len(db.addr_events)
                   /\ r.db.addr_events[i].asset_proof_id
                          = db.addr_events[i].asset_proof_id
                   /\ r.db.addr_events[i].asset_id = db.addr_events[i].asset_id
              /\ r.err # OK => r.db = db

\* an event completed by CompleteEvent, linked to its proof, is reported
\* again as detected, and the call succeeds
C12_Witness ==
    \E c \in EventCalls : \E i \in EventRows(db, c) :
        /\ db.addr_events[i].status = StatusCompleted
        /\ Linked(db, i)
        /\ c.status = StatusTransactionDetected
        /\ GetOrCreateEventOf(db, c).err = OK

-----------------------------------------------------------------------------
(* Claims about the managed-from time and the queries of addresses.  A     *)
(* claim about a call is stated of the result the call has in every        *)
(* reachable store.                                                        *)

\* the addresses an unfiltered QueryAddrs returns from the store d
AllAddrs(d) == QueryAddrs(d, NoParams).addrs

\* the positions in the addresses as of the address with the taproot output
\* key of addr
PositionsOf(as, addr) ==
    { n \in 1 .. Len(as) : as[n].TaprootOutputKey = addr.TaprootOutputKey }

\* InsertAddrs leaves the managed-from time of every stored address as it is
InsertKeepsManagedAfter ==
    LET before == AllAddrs(db)
    IN  \A addrs \in Batches :
            LET after == AllAddrs(InsertAddrsTx(db, addrs).db)
            IN  \A n \in 1 .. Len(before) :
                    after[n].ManagedAfter = before[n].ManagedAfter

\* C13 as stated: the managed-from time of an address changes at most once.
\* Once it is set no operation changes it, a SetAddrManaged with another
\* timestamp included.
C13_ManagedFromSetOnce ==
    LET before == AllAddrs(db)
    IN  /\ InsertKeepsManagedAfter
        /\ \A addr \in AddrInputs, t \in ManagedTimes :
               LET after == AllAddrs(SetAddrManagedTx(db, addr, t).db)
               IN  \A n \in 1 .. Len(before) :
                       ~IsZero(before[n].ManagedAfter) =>
                           after[n].ManagedAfter = before[n].ManagedAfter

\* C13: the managed-from time of an address changes only by SetAddrManaged,
\* every time it is called.  SetAddrManaged(addr, t) succeeds and sets the
\* managed-from time of the stored address with the taproot output key of
\* addr to t (to the second), also when it is set already, and leaves that of
\* every other address as it is; InsertAddrs changes none.
C13_ManagedFromOverwritten ==
    LET before == AllAddrs(db)
    IN  /\ InsertKeepsManagedAfter
        /\ \A addr \in AddrInputs, t \in ManagedTimes :
               LET r     == SetAddrManagedTx(db, addr, t)
                   after == AllAddrs(r.db)
               IN  /\ r.err = OK
                   /\ Len(after) = Len(before)
                   /\ \A n \in 1 .. Len(before) :
                          IF n \in PositionsOf(before, addr)
                          THEN after[n].ManagedAfter.unix = t.unix
                          ELSE after[n].ManagedAfter = before[n].ManagedAfter

\* a managed address is set managed with another timestamp, next to an
\* address that is not managed
C13_Witness ==
    /\ last = Call("SetAddrManaged", OK)
    /\ \E addr \in AddrInputs, t \in ManagedTimes :
           \E n \in PositionsOf(AllAddrs(db), addr) :
               /\ ~IsZero(AllAddrs(db)[n].ManagedAfter)
               /\ AllAddrs(db)[n].ManagedAfter.unix # t.unix
    /\ \E n \in 1 .. Len(AllAddrs(db)) : IsZero(AllAddrs(db)[n].ManagedAfter)

\* the addresses QueryAddrs returns from the store d with unmanagedOnly set
UnmanagedAddrs(d) ==
    QueryAddrs(d, QueryParams(ZeroTime, ZeroTime, 0, 0, TRUE)).addrs

\* the taproot output keys of a sequence of addresses
KeysOf(as) == { as[n].TaprootOutputKey : n \in 1 .. Len(as) }

\* C14: every address is unmanaged right after InsertAddrs, whatever
\* managed-from time the record handed in carries: a successful InsertAddrs
\* leaves every address of the batch among the addresses QueryAddrs returns
\* with unmanagedOnly, with a zero ManagedAfter.  After SetAddrManaged the
\* address is not among them, and an address that has a managed-from time
\* keeps one and stays out of them under every further InsertAddrs and
\* SetAddrManaged.
C14_UnmanagedUntilSet ==
    /\ \A addrs \in Batches :
           LET r         == InsertAddrsTx(db, addrs)
               unmanaged == UnmanagedAddrs(r.db)
           IN  /\ r.err = OK =>
                     \A k \in 1 .. Len(addrs) : \E n \in 1 .. Len(unmanaged) :
                         /\ unmanaged[n].TaprootOutputKey
                                = addrs[k].TaprootOutputKey
                         /\ IsZero(unmanaged[n].ManagedAfter)
               /\ \A i \in Rows(db.addrs) :
                      db.addrs[i].managed_from # <<>> =>
                          /\ r.db.addrs[i].managed_from # <<>>
                          /\ SchnorrParsePubKey(db.addrs[i].taproot_output_key).key
                                 \notin KeysOf(unmanaged)
    /\ \A addr \in AddrInputs, t \in ManagedTimesOrZero :
           LET r         == SetAddrManagedTx(db, addr, t)
               unmanaged == UnmanagedAddrs(r.db)
           IN  /\ r.err = OK
               /\ addr.TaprootOutputKey \notin KeysOf(unmanaged)
               /\ \A i \in Rows(db.addrs) :
                      db.addrs[i].managed_from # <<>> =>
                          /\ r.db.addrs[i].managed_from # <<>>
                          /\ SchnorrParsePubKey(db.addrs[i].taproot_output_key).key
                                 \notin KeysOf(unmanaged)

\* InsertAddrs has stored Addr2, whose record says it is managed, and the
\* unmanagedOnly query returns it; another address was set managed before
\* and the query does not return it
C14_Witness ==
    /\ last = Call("InsertAddrs", OK)
    /\ Addr2.TaprootOutputKey \in KeysOf(UnmanagedAddrs(db))
    /\ ~IsZero(Addr2.ManagedAfter)
    /\ \E i \in Rows(db.addrs) :
           /\ db.addrs[i].managed_from # <<>>
           /\ SchnorrParsePubKey(db.addrs[i].taproot_output_key).key
                  \notin KeysOf(UnmanagedAddrs(db))

\* the public keys a caller may ask for
AllKeys == { PubKey(x, odd) : x \in CurveX, odd \in BOOLEAN }

\* no stored address has the taproot output key
NotStored(d, key) ==
    \A i \in Rows(d.addrs) :
        d.addrs[i].taproot_output_key # SchnorrSerializePubKey(key)

RECURSIVE Picked(_, _, _)
Picked(as, keep, n) ==
    IF n > Len(as) THEN <<>>
    ELSE (IF n \in keep THEN <<as[n]>> ELSE <<>>) \o Picked(as, keep, n + 1)

\* in the store d the unfiltered QueryAddrs returns every stored address, in
\* storage order, a managed one with its managed-from time, and the
\* unmanagedOnly QueryAddrs returns of these the ones without a managed-from
\* time, in the same order
ManagedPartition(d) ==
    LET all       == QueryAddrs(d, NoParams)
        unmanaged == QueryAddrs(d, QueryParams(ZeroTime, ZeroTime, 0, 0, TRUE))
    IN  /\ all.err = OK
        /\ unmanaged.err = OK
        /\ Len(all.addrs) = Len(d.addrs)
        /\ \A n \in Rows(d.addrs) :
               /\ SchnorrSerializePubKey(all.addrs[n].TaprootOutputKey)
                      = d.addrs[n].taproot_output_key
               /\ d.addrs[n].managed_from # <<>> =>
                      all.addrs[n].ManagedAfter = d.addrs[n].managed_from[1]
               /\ d.addrs[n].managed_from = <<>> =>
                      IsZero(all.addrs[n].ManagedAfter)
        /\ unmanaged.addrs
               = Picked(all.addrs,
                        {n \in Rows(d.addrs) : d.addrs[n].managed_from = <<>>}, 1)

\* C16: after any sequence of InsertAddrs and SetAddrManaged the
\* unmanagedOnly QueryAddrs returns exactly the addresses without a
\* managed-from time, in the order the unfiltered QueryAddrs returns them,
\* and the unfiltered QueryAddrs returns all addresses; after
\* SetAddrManaged(addr, t) it returns addr with the managed-from time t, to
\* the second, and the unmanagedOnly QueryAddrs returns what it returned
\* before without addr.
C16_ManagedPartition ==
    /\ ManagedPartition(db)
    /\ \A addr \in AddrInputs, t \in ManagedTimesOrZero :
           LET r      == SetAddrManagedTx(db, addr, t)
               all    == AllAddrs(r.db)
               before == UnmanagedAddrs(db)
           IN  /\ ManagedPartition(r.db)
               /\ \A n \in PositionsOf(all, addr) :
                      all[n].ManagedAfter.unix = t.unix
               /\ UnmanagedAddrs(r.db)
                      = Picked(before,
                               {n \in 1 .. Len(before) :
                                    before[n].TaprootOutputKey
                                        # addr.TaprootOutputKey}, 1)

\* three addresses are stored and the second one has just been set managed:
\* the unmanagedOnly query returns the first and the third
C16_Witness ==
    /\ last = Call("SetAddrManaged", OK)
    /\ Len(db.addrs) = 3
    /\ db.addrs[1].managed_from = <<>>
    /\ db.addrs[2].managed_from = <<Time(30, FALSE)>>
    /\ db.addrs[3].managed_from = <<>>
    /\ UnmanagedAddrs(db) = <<AllAddrs(db)[1], AllAddrs(db)[3]>>

\* the addresses of as at the 0-based positions offset .. offset+limit-1,
\* the ones that exist; from offset on when the limit is 0
Page(as, limit, offset) ==
    LET hi == IF limit = 0 \/ offset + limit > Len(as)
              THEN Len(as) ELSE offset + limit
    IN  IF offset >= Len(as) THEN <<>> ELSE SubSeq(as, offset + 1, hi)

\* C17: QueryAddrs with limit L > 0 and offset O returns the addresses at
\* the positions O .. O+L-1 (0-based) of what it returns without limit and
\* offset, fewer when there are fewer; with limit 0 it returns all of them
\* from position O on.
C17_LimitAndOffset ==
    \A q \in PagedQueries :
        LET full == QueryAddrs(db, [q EXCEPT !.Limit = 0, !.Offset = 0])
            page == QueryAddrs(db, q)
        IN  /\ full.err = OK
            /\ page.err = OK
            /\ page.addrs = Page(full.addrs, q.Limit, q.Offset)

\* three addresses are stored and QueryAddrs has been called: limit 1 with
\* offset 1 returns the second address alone, limit 0 with offset 1 the
\* second and the third, limit 2 with offset 2 the third alone
C17_Witness ==
    LET full == AllAddrs(db)
        paged(limit, offset) ==
            QueryAddrs(db, QueryParams(ZeroTime, ZeroTime, limit, offset,
                                       FALSE)).addrs
    IN  /\ last = Call("QueryAddrs", OK)
        /\ Len(full) = 3
        /\ paged(1, 1) = <<full[2]>>
        /\ paged(0, 1) = <<full[2], full[3]>>
        /\ paged(2, 2) = <<full[3]>>

\* the creation times of the stored addresses, in seconds
CreationTimes(d) == { d.addrs[i].creation_time.unix : i \in Rows(d.addrs) }

-----------------------------------------------------------------------------
(* Claims about the queries of events *)

\* the events are the event rows of the set want, each once, by ascending
\* ID, each with the status of its row
EventsAre(d, events, want) ==
    /\ Len(events) = Cardinality(want)
    /\ \A n \in 1 .. Len(events) :
           /\ events[n].ID \in want
           /\ events[n].Status = d.addr_events[events[n].ID].status
    /\ \A n \in 1 .. Len(events) - 1 : events[n].ID < events[n + 1].ID

\* C19: QueryAddrEvents returns exactly the events whose status is at least
\* statusFrom and at most statusTo, by ascending ID, where an absent
\* statusFrom is Detected and an absent statusTo is Completed; when no valid
\* status code is in the range it returns no event and no error.
C19_StatusRange ==
    \A from \in StatusBounds, to \in StatusBounds :
        LET res == QueryAddrEvents(db, EventQueryParams(NilBytes, from, to))
            lo  == IF from = <<>> THEN StatusTransactionDetected ELSE from[1]
            hi  == IF to = <<>> THEN StatusCompleted ELSE to[1]
        IN  /\ res.err = OK
            /\ EventsAre(db, res.events,
                   { i \in Rows(db.addr_events) :
                       /\ lo <= db.addr_events[i].status
                       /\ db.addr_events[i].status <= hi })
            /\ (\A st \in Statuses : st < lo \/ st > hi) => res.events = <<>>

\* three events are stored, the first Confirmed, another one not: the query
\* for Confirmed alone returns the first and not all, the query without
\* bounds returns the three, the query from the code 123 returns none
C19_Witness ==
    LET query(from, to) ==
            QueryAddrEvents(db, EventQueryParams(NilBytes, from, to))
        confirmed == query(<<StatusTransactionConfirmed>>,
                           <<StatusTransactionConfirmed>>).events
    IN  /\ Len(db.addr_events) = 3
        /\ Len(query(<<>>, <<>>).events) = 3
        /\ confirmed # <<>>
        /\ confirmed[1].ID = 1
        /\ Len(confirmed) < 3
        /\ query(<<123>>, <<>>).err = OK
        /\ query(<<123>>, <<>>).events = <<>>

\* the event rows of the addresses with the taproot output key bytes
EventsOfKey(d, bytes) ==
    { i \in Rows(d.addr_events) :
        d.addrs[d.addr_events[i].addr_id].taproot_output_key = bytes }

\* C20: QueryAddrEvents with a nil key filter or one of length 0 returns
\* the events of all addresses; with a key filter that is not empty it
\* returns exactly the events of the address with that taproot output key,
\* each with that address, and no event and no error when no address has
\* the key.
C20_KeyFilter ==
    \A key \in KeyFilters :
        LET res == QueryAddrEvents(db, EventQueryParams(key, <<>>, <<>>))
        IN  /\ res.err = OK
            /\ IF Len(key.bytes) = 0
               THEN EventsAre(db, res.events, Rows(db.addr_events))
               ELSE /\ EventsAre(db, res.events, EventsOfKey(db, key.bytes))
                    /\ \A n \in 1 .. Len(res.events) :
                           SchnorrSerializePubKey(
                               res.events[n].Addr.TaprootOutputKey) = key.bytes
                    /\ (\A i \in Rows(db.addrs) :
                            db.addrs[i].taproot_output_key # key.bytes) =>
                           res.events = <<>>

\* Addr1 has two events and Addr4 has one: the query with the key of Addr4
\* returns that one, the queries with the nil key and with the empty key
\* return the three, the query with the key of Addr2 returns none
C20_Witness ==
    LET query(key) ==
            QueryAddrEvents(db, EventQueryParams(key, <<>>, <<>>))
        key4 == Bytes(SchnorrSerializePubKey(Addr4.TaprootOutputKey))
        key2 == Bytes(SchnorrSerializePubKey(Addr2.TaprootOutputKey))
    IN  /\ Len(db.addr_events) = 3
        /\ Len(query(key4).events) = 1
        /\ query(key4).events[1].Addr.TaprootOutputKey = Addr4.TaprootOutputKey
        /\ Len(query(NilBytes).events) = 3
        /\ Len(query(Bytes(<<>>)).events) = 3
        /\ query(key2).err = OK
        /\ query(key2).events = <<>>

-----------------------------------------------------------------------------
(* Claims about chain transactions *)

\* the chain transaction row of the transaction of the call c in the store d
ChainTxOf(d, c) == d.chain_txns[ChainTxID(d, TxHash(c.walletTx.Tx))]

\* C21 as stated: the block fields of a chain transaction follow its most
\* recent report.  After a successful GetOrCreateEvent that reports the
\* transaction with no confirmations neither block height nor block hash is
\* stored, also when an earlier report had confirmations; after one that
\* reports it with confirmations the reported height and hash are stored.
C21_BlockFieldsFollowLastReport ==
    \A c \in EventCalls :
        LET r == GetOrCreateEventOf(db, c)
        IN  r.err = OK =>
              IF c.walletTx.Confirmations > 0
              THEN /\ ChainTxOf(r.db, c).block_height
                          = <<c.walletTx.BlockHeight>>
                   /\ ChainTxOf(r.db, c).block_hash
                          = NewHashFromStr(c.walletTx.BlockHash).hash
              ELSE /\ ChainTxOf(r.db, c).block_height = <<>>
                   /\ ChainTxOf(r.db, c).block_hash = <<>>

-----------------------------------------------------------------------------
(* The macaroon root key store *)

ErrNotFound == "not found"
ErrContextRootKeyID == "failed to read root key ID from context"
ErrRand == "unexpected EOF"

\* the row of the root key with the id, 0 when there is none
MacaroonRow(d, id) ==
    IF \E i \in Rows(d.macaroons) : d.macaroons[i].id = id
    THEN CHOOSE i \in Rows(d.macaroons) : d.macaroons[i].id = id
    ELSE 0

\* KeyStore.GetRootKey: the (id, rootKey) tuple stored for the id
GetRootKey(d, id) ==
    IF MacaroonRow(d, id) = 0
    THEN Res(d, ErrNoRows, <<>>)
    ELSE Res(d, OK, d.macaroons[MacaroonRow(d, id)])

\* KeyStore.InsertRootKey: the store is keyed by the id
InsertRootKey(d, arg) ==
    IF MacaroonRow(d, arg.ID) # 0
    THEN Res(d, ErrConstraint, <<>>)
    ELSE Res([d EXCEPT !.macaroons =
                  Append(@, [id |-> arg.ID, root_key |-> arg.RootKey])],
             OK, <<>>)

\* macaroons.RootKeyIDFromContext: a context is <<>> or <<id>>
RootKeyIDFromContext(ctx) ==
    IF ctx = <<>> THEN [err |-> ErrContextRootKeyID, id |-> <<>>]
    ELSE [err |-> OK, id |-> ctx[1]]

\* RootKeyStore.Get
Get(d, id) ==
    LET mac == GetRootKey(d, id)
    IN  IF mac.err # OK THEN Res(d, mac.err, <<>>)
        ELSE Res(d, OK, mac.val.root_key)

\* the value RootKey returns: the root key and the id
KeyAndID(rootKey, id) == [rootKey |-> rootKey, id |-> id]

\* RootKey without the lookup of a stored root key
RootKeyNoLookup(d, ctx, rand) ==
    LET id  == RootKeyIDFromContext(ctx)
        ins == InsertRootKey(d, [ID |-> id.id, RootKey |-> rand[1]])
    IN  IF id.err # OK THEN Res(d, id.err, <<>>)
        ELSE IF rand = <<>> THEN Res(d, ErrRand, <<>>)
        ELSE IF ins.err # OK THEN Res(ins.db, ins.err, <<>>)
        ELSE Res(ins.db, OK, KeyAndID(rand[1], id.id))

\* RootKeyStore.RootKey called alone.  rand is what rand.Reader delivers:
\* <<k>> for the bytes of the key k, <<>> when the read fails.  The closure
\* calls GetRootKey and InsertRootKey on r.db, not on the transaction q it
\* is handed, so each statement acts on the store itself and the
\* transaction of ExecTx holds no statement.
RootKey(d, ctx, rand) ==
    LET id  == RootKeyIDFromContext(ctx)
        mac == GetRootKey(d, id.id)
        ins == InsertRootKey(d, [ID |-> id.id, RootKey |-> rand[1]])
    IN  IF id.err # OK THEN Res(d, id.err, <<>>)
        ELSE IF mac.err = OK
             THEN Res(d, OK, KeyAndID(mac.val.root_key, id.id))
        ELSE IF mac.err # ErrNoRows THEN Res(d, mac.err, <<>>)
        ELSE IF rand = <<>> THEN Res(d, ErrRand, <<>>)
        ELSE IF ins.err # OK THEN Res(ins.db, ins.err, <<>>)
        ELSE Res(ins.db, OK, KeyAndID(rand[1], id.id))

\* the callers of the root key store, the ids, the contexts and the bytes
\* of the random source
KeyCallers == 1 .. 2
RootKeyIDs == {<<1>>, <<2>>}
Contexts == {<<>>} \cup { <<id>> : id \in RootKeyIDs }
RandReads == {<<>>, <<7>>, <<8>>}

\* a caller is outside a call ("idle"), in RootKey before the lookup
\* ("lookup"), before the insert ("insert"), before the commit of ExecTx
\* ("commit"), or back from the call ("done")
KeyCaller(pc, id, rootKey, err) ==
    [pc |-> pc, id |-> id, rootKey |-> rootKey, err |-> err]

IdleKeyCaller == KeyCaller("idle", <<>>, <<>>, OK)

\* RootKey up to the start of the closure: ExecTx opens the transaction
\* and the closure reads the id from the context
RootKeyBegin(p, ctx) ==
    LET id == RootKeyIDFromContext(ctx)
    IN  /\ txs[p].pc = "idle"
        /\ txs' = [txs EXCEPT ![p] =
               IF id.err # OK THEN KeyCaller("done", <<>>, <<>>, id.err)
               ELSE KeyCaller("lookup", id.id, <<>>, OK)]
        /\ UNCHANGED <<db, last, inserted>>

\* r.db.GetRootKey, on the store itself
RootKeyLookup(p) ==
    LET mac == GetRootKey(db, txs[p].id)
    IN  /\ txs[p].pc = "lookup"
        /\ txs' = [txs EXCEPT ![p] =
               IF mac.err = OK
               THEN KeyCaller("commit", txs[p].id, mac.val.root_key, OK)
               ELSE IF mac.err # ErrNoRows
               THEN KeyCaller("done", txs[p].id, <<>>, mac.err)
               ELSE KeyCaller("insert", txs[p].id, <<>>, OK)]
        /\ UNCHANGED <<db, last, inserted>>

\* the read of the random source and r.db.InsertRootKey, on the store itself
RootKeyInsert(p, rand) ==
    LET ins == InsertRootKey(db, [ID |-> txs[p].id, RootKey |-> rand[1]])
    IN  /\ txs[p].pc = "insert"
        /\ IF rand = <<>>
           THEN /\ txs' = [txs EXCEPT ![p] =
                       KeyCaller("done", txs[p].id, <<>>, ErrRand)]
                /\ db' = db
           ELSE /\ db' = ins.db
                /\ txs' = [txs EXCEPT ![p] =
                       IF ins.err # OK
                       THEN KeyCaller("done", txs[p].id, <<>>, ins.err)
                       ELSE KeyCaller("commit", txs[p].id, rand[1], OK)]
        /\ UNCHANGED <<last, inserted>>

\* ExecTx commits the transaction, which holds no statement, and RootKey
\* returns the root key and the id
RootKeyCommit(p) ==
    /\ txs[p].pc = "commit"
    /\ txs' = [txs EXCEPT ![p].pc = "done"]
    /\ UNCHANGED <<db, last, inserted>>

\* the caller takes the result
RootKeyReturn(p) ==
    /\ txs[p].pc = "done"
    /\ txs' = [txs EXCEPT ![p] = IdleKeyCaller]
    /\ UNCHANGED <<db, last, inserted>>

InitKeys ==
    /\ db = EmptyDB
    /\ last = Call("none", OK)
    /\ inserted = <<>>
    /\ txs = [p \in KeyCallers |-> IdleKeyCaller]

NextKeys ==
    \/ \E p \in KeyCallers, ctx \in Contexts : RootKeyBegin(p, ctx)
    \/ \E p \in KeyCallers : RootKeyLookup(p)
    \/ \E p \in KeyCallers, rand \in RandReads : RootKeyInsert(p, rand)
    \/ \E p \in KeyCallers : RootKeyCommit(p)
    \/ \E p \in KeyCallers : RootKeyReturn(p)

SpecKeys == InitKeys /\ [][NextKeys]_vars

-----------------------------------------------------------------------------
(* Claims about the root key store *)

\* C25 as stated: Get of an id with no stored root key returns the
\* ErrNotFound error of the macaroon bakery, not the no-rows error of the
\* storage layer.
C25_GetUnknownIsErrNotFound ==
    \A id \in RootKeyIDs :
        MacaroonRow(db, id) = 0 =>
            /\ Get(db, id).err = ErrNotFound
            /\ Get(db, id).err # ErrNoRows

\* C26: after RootKey returned (rootKey, id), Get(id) returns rootKey and
\* every later RootKey with the id returns rootKey and stores nothing; a
\* RootKey whose context carries no id fails and stores nothing.
C26_RootKeyIsStable ==
    /\ \A ctx \in Contexts, rand \in RandReads :
           LET r == RootKey(db, ctx, rand)
           IN  /\ ctx = <<>> => r.err # OK /\ r.db = db
               /\ r.err = OK =>
                    /\ Get(r.db, r.val.id) = Res(r.db, OK, r.val.rootKey)
                    /\ \A again \in RandReads :
                           RootKey(r.db, <<r.val.id>>, again)
                               = Res(r.db, OK, r.val)
                    /\ Cardinality({ i \in Rows(r.db.macaroons) :
                           r.db.macaroons[i].id = r.val.id }) = 1
    /\ \A p \in KeyCallers :
           txs[p].pc = "done" /\ txs[p].err = OK =>
               Get(db, txs[p].id) = Res(db, OK, txs[p].rootKey)

\* a RootKey call stored a new root key and returned, and a second call
\* with the same id would return it
C26_Witness ==
    \E p \in KeyCallers :
        /\ txs[p].pc = "done" /\ txs[p].err = OK
        /\ Len(db.macaroons) = 2
        /\ RootKey(db, <<txs[p].id>>, <<8>>).val.rootKey = txs[p].rootKey
        /\ RootKey(db, <<>>, <<8>>).err = ErrContextRootKeyID

\* C27 as stated: two RootKey calls that run concurrently with the same id
\* both succeed and both return the same root key, when the random source
\* delivers.
C27_ConcurrentRootKeyAgree ==
    \A p, q \in KeyCallers :
        /\ p # q
        /\ txs[p].pc = "done" /\ txs[q].pc = "done"
        /\ txs[p].id # <<>> /\ txs[p].id = txs[q].id
        /\ txs[p].err # ErrRand /\ txs[q].err # ErrRand
        => /\ txs[p].err = OK /\ txs[q].err = OK
           /\ txs[p].rootKey = txs[q].rootKey

-----------------------------------------------------------------------------
(* Concurrent callers of the address book *)

ErrSerialization == "could not serialize access"

\* a call of a caller: the method and its arguments
TxCall(op, arg) == [op |-> op, arg |-> arg]

\* AddrBookTxOptions.ReadOnly: the queries open a read transaction, the
\* other methods a write transaction
ReadOnly(call) ==
    call.op \in {"QueryAddrs", "AddrByTaprootOutput", "QueryAddrEvents"}

\* an event upsert that reports every event as detected
UpsertStatusDetected(c) == StatusTransactionDetected

\* the status GetOrCreateEvent hands to the event upsert, int16(status):
\* the status of the call, the codes being far below 2^15
UpsertStatus(c) == c.status

\* the statements of the ExecTx closure of GetOrCreateEvent, one at a time
GetOrCreateEventStmt(d, c, k) ==
    LET txHash    == TxHash(c.walletTx.Tx)
        blockHash == NewHashFromStr(c.walletTx.BlockHash)
        outpoint  == encodeOutpoint(txHash, c.outputIdx)
        fetched   == fetchEvent(d, StoredEventID(d, c.addr, txHash, c.outputIdx),
                                c.addr)
    IN  CASE k = 1 ->
               IF c.walletTx.Confirmations > 0 /\ ~blockHash.ok
               THEN Res(d, ErrBlockHash, <<>>)
               ELSE UpsertChainTx(d,
                        [ Txid        |-> txHash,
                          RawTx       |-> c.walletTx.Tx,
                          BlockHeight |-> IF c.walletTx.Confirmations > 0
                                          THEN <<c.walletTx.BlockHeight>>
                                          ELSE <<>>,
                          BlockHash   |-> IF c.walletTx.Confirmations > 0
                                          THEN blockHash.hash ELSE <<>> ])
          [] k = 2 ->
               IF c.fault = "commitment" THEN Res(d, ErrCommitment, <<>>)
               ELSE UpsertManagedUTXO(d,
                        [ RawKey           |->
                              SerializeCompressed(c.addr.InternalKey),
                          Outpoint         |-> outpoint,
                          AmtSats          |->
                              c.walletTx.OutputDetails[c.outputIdx + 1],
                          TapscriptSibling |-> c.sibling,
                          TaroRoot         |->
                              TapscriptRoot(TaroCommitment(c.addr), c.sibling),
                          TxnID            |-> ChainTxID(d, txHash) ])
          [] k = 3 ->
               UpsertAddrEvent(d,
                   [ TaprootOutputKey    |->
                         SchnorrSerializePubKey(c.addr.TaprootOutputKey),
                     CreationTime        |-> c.now,
                     Status              |-> UpsertStatus(c),
                     Txid                |-> txHash,
                     ChainTxnOutputIndex |-> c.outputIdx,
                     ManagedUtxoID       |-> UtxoID(d, outpoint),
                     AssetProofID        |-> <<>>,
                     AssetID             |-> <<>> ])
          [] OTHER ->
               IF c.fault = "fetch" THEN Res(d, ErrFetch, <<>>)
               ELSE Res(d, fetched.err, fetched.event)

\* the statements of the ExecTx closure of CompleteEvent, one at a time
CompleteEventStmt(d, arg, k) ==
    LET proofData == FetchAssetProof(d,
                         SerializeCompressed(arg.event.Addr.ScriptKey))
    IN  IF k = 1 THEN Res(d, proofData.err, <<>>)
        ELSE UpsertAddrEvent(d,
                 [ TaprootOutputKey    |->
                       SchnorrSerializePubKey(arg.event.Addr.TaprootOutputKey),
                   CreationTime        |-> ZeroTime,
                   Status              |-> arg.status,
                   Txid                |-> arg.anchorPoint.Hash,
                   ChainTxnOutputIndex |-> arg.anchorPoint.Index,
                   ManagedUtxoID       |-> 0,
                   AssetProofID        |-> <<proofData.val.ProofID>>,
                   AssetID             |-> <<proofData.val.AssetID>> ])

\* the number of statements of the ExecTx closure of a call; InsertAddrs
\* runs the statements of one address as one step, a query is one step
NumStmts(call) ==
    CASE call.op = "GetOrCreateEvent" -> 4
      [] call.op = "CompleteEvent"    -> 2
      [] call.op = "InsertAddrs"      -> Len(call.arg)
      [] OTHER                        -> 1

\* statement k of the closure of a call, on the store d of its transaction
Stmt(d, call, k) ==
    CASE call.op = "GetOrCreateEvent" -> GetOrCreateEventStmt(d, call.arg, k)
      [] call.op = "CompleteEvent"    -> CompleteEventStmt(d, call.arg, k)
      [] call.op = "InsertAddrs"      -> InsertOneAddr(d, call.arg[k])
      [] call.op = "QueryAddrs"       ->
             Res(d, QueryAddrs(d, call.arg).err, <<>>)
      [] call.op = "AddrByTaprootOutput" ->
             Res(d, AddrByTaprootOutput(d, call.arg).err, <<>>)
      [] OTHER ->
             Res(d, QueryAddrEvents(d, call.arg).err, <<>>)

\* a transaction that commits after each of its statements
TxBoundaryEach(call, k) == TRUE

\* statement k is the last one of the ExecTx closure of the call: every
\* method runs all its statements in the one closure it hands to ExecTx
TxBoundary(call, k) == k = NumStmts(call)

\* the callers and their calls: two reports of output 0 of Tx1 for Addr1
\* with different status, a report of Tx2 that fails after its first
\* statement, a batch of two new addresses, a batch
\* whose second address has the taproot output key of Addr1, the
\* completion of an event, and the three queries
TxCallers == 1 .. 2
ReportDetected ==
    EventCall(StatusTransactionDetected, Addr1, Tx1Unconfirmed, 0, <<>>,
              FirstSeen, "none")
ReportConfirmed ==
    EventCall(StatusTransactionConfirmed, Addr1, Tx1Unconfirmed, 0, <<>>,
              FirstSeen, "none")
ReportFailing ==
    EventCall(StatusTransactionDetected, Addr1, Tx2Unconfirmed, 0, <<>>,
              FirstSeen, "commitment")
NewBatch == <<Addr2, Addr4>>
BadBatch == <<Addr2, Addr3>>
AllEvents == EventQueryParams(NilBytes, <<>>, <<>>)

Reports == {ReportDetected, ReportConfirmed, ReportFailing}
TxBatches == {NewBatch, BadBatch}
Completions(d) ==
    { [event |-> e, status |-> StatusCompleted, anchorPoint |-> e.Outpoint] :
          e \in { HeldEvents(d)[n] : n \in 1 .. Len(HeldEvents(d)) } }

\* a caller is outside a call ("idle"), in the closure of ExecTx before
\* statement k + 1 ("run"), at the end of the closure ("commit") or back
\* from the call ("done").  snap is the store its transaction started
\* from, work the store its statements see, latest says that the last
\* commit that wrote the store is the one of this call.
TxCaller(pc, call, snap, work, k, err, latest) ==
    [ pc |-> pc, call |-> call, snap |-> snap, work |-> work, k |-> k,
      err |-> err, latest |-> latest ]

IdleCaller == TxCaller("idle", TxCall("none", <<>>), <<>>, <<>>, 0, OK, FALSE)

\* the caller is back from its call
Done(t, err, latest) == TxCaller("done", t.call, <<>>, <<>>, t.k, err, latest)

\* ExecTx opens the transaction of a call
TxBegin(p, call) ==
    /\ txs[p].pc = "idle"
    /\ txs' = [txs EXCEPT ![p] = TxCaller("run", call, db, db, 0, OK, FALSE)]
    /\ UNCHANGED <<db, last, inserted>>

\* the closure runs its next statement; an error ends the closure and
\* ExecTx rolls the transaction back
TxStmt(p) ==
    LET t == txs[p]
        r == Stmt(t.work, t.call, t.k + 1)
    IN  /\ t.pc = "run"
        /\ txs' = [txs EXCEPT ![p] =
               IF r.err # OK THEN Done(t, r.err, t.latest)
               ELSE [t EXCEPT !.work = r.db, !.k = t.k + 1,
                              !.pc = IF TxBoundary(t.call, t.k + 1)
                                     THEN "commit" ELSE "run"]]
        /\ UNCHANGED <<db, last, inserted>>

\* ExecTx commits.  A read transaction always commits; a write transaction
\* commits its store when no other transaction has committed since it
\* started and fails otherwise.
TxCommit(p) ==
    LET t  == txs[p]
        ok == ReadOnly(t.call) \/ db = t.snap
        wr == ok /\ ~ReadOnly(t.call)
        d  == IF wr THEN t.work ELSE db
    IN  /\ t.pc = "commit"
        /\ db' = d
        /\ txs' = [q \in TxCallers |->
               IF q # p
               THEN [txs[q] EXCEPT !.latest = @ /\ ~wr]
               ELSE IF ~ok THEN Done(t, ErrSerialization, t.latest)
               ELSE IF t.k = NumStmts(t.call) THEN Done(t, OK, wr \/ t.latest)
               ELSE [t EXCEPT !.pc = "run", !.snap = d, !.work = d,
                              !.latest = wr \/ t.latest]]
        /\ UNCHANGED <<last, inserted>>

\* the caller takes the result
TxReturn(p) ==
    /\ txs[p].pc = "done"
    /\ txs' = [txs EXCEPT ![p] = IdleCaller]
    /\ UNCHANGED <<db, last, inserted>>

\* the store holds Addr1 and the proof of the asset sent to it
StartStore ==
    ImportProofTx(InsertAddrsTx(EmptyDB, <<Addr1>>).db,
                  SerializeCompressed(Addr1.ScriptKey), Addr1.Genesis.Tag).db

InitTx ==
    /\ db = StartStore
    /\ last = Call("InsertAddrs", OK)
    /\ inserted = <<Addr1>>
    /\ txs = [p \in TxCallers |-> IdleCaller]

NextTx ==
    \/ \E p \in TxCallers, c \in Reports :
           TxBegin(p, TxCall("GetOrCreateEvent", c))
    \/ \E p \in TxCallers, addrs \in TxBatches :
           TxBegin(p, TxCall("InsertAddrs", addrs))
    \/ \E p \in TxCallers : \E arg \in Completions(db) :
           TxBegin(p, TxCall("CompleteEvent", arg))
    \/ \E p \in TxCallers : TxBegin(p, TxCall("QueryAddrs", NoParams))
    \/ \E p \in TxCallers :
           TxBegin(p, TxCall("AddrByTaprootOutput", Addr2.TaprootOutputKey))
    \/ \E p \in TxCallers : TxBegin(p, TxCall("QueryAddrEvents", AllEvents))
    \/ \E p \in TxCallers : TxStmt(p)
    \/ \E p \in TxCallers : TxCommit(p)
    \/ \E p \in TxCallers : TxReturn(p)

SpecTx == InitTx /\ [][NextTx]_vars

-----------------------------------------------------------------------------
(* Claims about concurrent callers *)

\* the callers p and q are back from GetOrCreateEvent calls that report
\* the same output of the same transaction for the same address
SameEventKey(p, q) ==
    /\ p # q
    /\ txs[p].pc = "done" /\ txs[p].call.op = "GetOrCreateEvent"
    /\ txs[q].pc = "done" /\ txs[q].call.op = "GetOrCreateEvent"
    /\ txs[p].call.arg.fault = "none" /\ txs[q].call.arg.fault = "none"
    /\ txs[p].call.arg.addr = txs[q].call.arg.addr
    /\ txs[p].call.arg.walletTx.Tx = txs[q].call.arg.walletTx.Tx
    /\ txs[p].call.arg.outputIdx = txs[q].call.arg.outputIdx

\* C22: when two GetOrCreateEvent calls for the same (address, txid, output
\* index) are over, however their transactions interleaved, one of them
\* has committed, the store holds one event row for the key, one managed
\* UTXO row for the outpoint and one chain transaction row for the txid,
\* and the status of the event is the one of the call that committed last.
C22_ConcurrentReportsOneRow ==
    \A p, q \in TxCallers :
        SameEventKey(p, q) =>
            LET c      == txs[p].call.arg
                txHash == TxHash(c.walletTx.Tx)
                outpoint == encodeOutpoint(txHash, c.outputIdx)
            IN  /\ txs[p].err = OK \/ txs[q].err = OK
                /\ Cardinality({ i \in Rows(db.chain_txns) :
                       db.chain_txns[i].txid = txHash }) = 1
                /\ Cardinality({ i \in Rows(db.managed_utxos) :
                       db.managed_utxos[i].outpoint = outpoint }) = 1
                /\ Cardinality(EventRows(db, c)) = 1
                /\ txs[p].err = OK /\ txs[p].latest =>
                       StoredEvent(db, c).Status = c.status

\* two reports of one output with different status ran in overlapping
\* transactions: the one that committed second failed, the other one is
\* the last commit and its status is the stored one
C22_Witness ==
    \E p, q \in TxCallers :
        /\ SameEventKey(p, q)
        /\ txs[p].call.arg.status # txs[q].call.arg.status
        /\ txs[p].err = OK /\ txs[p].latest
        /\ txs[q].err = ErrSerialization
        /\ StoredEvent(db, txs[p].call.arg).Status = txs[p].call.arg.status

\* the script keys of the addresses QueryAddrs returns
SeenAddrs(d) ==
    LET r == QueryAddrs(d, NoParams)
    IN  { r.addrs[n].ScriptKey : n \in 1 .. Len(r.addrs) }

\* the script keys of the addresses of the batches that can be inserted
BatchKeys ==
    { { b[n].ScriptKey : n \in 1 .. Len(b) } :
          b \in { x \in TxBatches : InsertAddrsTx(StartStore, x).err = OK } }

\* the stores the queries read: the store as it is, for a query that
\* starts now, and the stores of the read transactions that are running
ReadStores ==
    {db} \cup { txs[p].work :
                  p \in { q \in TxCallers :
                            txs[q].pc = "run" /\ ReadOnly(txs[q].call) } }

\* a store holds no part of a call: the addresses are the ones of whole
\* batches, every address is returned with its keys, and every chain
\* transaction and every managed UTXO belongs to an event that is returned
NoPartialWrite(d) ==
    LET addrs  == QueryAddrs(d, NoParams)
        events == QueryAddrEvents(d, AllEvents)
    IN  /\ \E S \in SUBSET BatchKeys :
               SeenAddrs(d) = SeenAddrs(StartStore) \cup UNION S
        /\ addrs.err = OK /\ Len(addrs.addrs) = Len(d.addrs)
        /\ \A a \in AddrInputs :
               AddrID(d, SchnorrSerializePubKey(a.TaprootOutputKey)) # 0 =>
                   AddrByTaprootOutput(d, a.TaprootOutputKey).err = OK
        /\ events.err = OK /\ Len(events.events) = Len(d.addr_events)
        /\ \A i \in Rows(d.chain_txns) :
               \E j \in Rows(d.addr_events) : d.addr_events[j].chain_txn_id = i
        /\ \A i \in Rows(d.managed_utxos) :
               \E j \in Rows(d.addr_events) :
                   d.addr_events[j].managed_utxo_id = i

\* C23: no query observes a partial write.  Whatever InsertAddrs,
\* GetOrCreateEvent and CompleteEvent calls are running, the store that
\* QueryAddrs, AddrByTaprootOutput and QueryAddrEvents read holds all or
\* none of the rows of each call: never part of an address batch, never an
\* address without its key rows, never a chain transaction or managed UTXO
\* of a call whose event is not visible.
C23_NoPartialWriteObserved == \A d \in ReadStores : NoPartialWrite(d)

\* a query runs on the store it started from while a write transaction has
\* committed since and another one has run some of its statements
C23_Witness ==
    \E p, q \in TxCallers :
        /\ txs[p].pc = "run" /\ ReadOnly(txs[p].call)
        /\ txs[p].work # db
        /\ txs[q].pc = "run" /\ ~ReadOnly(txs[q].call)
        /\ txs[q].k >= 1 /\ txs[q].work # txs[q].snap
        /\ Len(txs[q].work.chain_txns) > Len(db.chain_txns)
        /\ NoPartialWrite(txs[p].work)

-----------------------------------------------------------------------------
(* Claims about the two ways to read an address *)

\* C28 as stated: AddrByTaprootOutput and QueryAddrs return equal records
\* for the same address in every state, and after a successful
\* SetAddrManaged(ts) the record of AddrByTaprootOutput has ManagedAfter
\* ts, as the one of QueryAddrs has.
C28_SameRecordBothWays ==
    /\ \A n \in 1 .. Len(AllAddrs(db)) :
           LET a == AllAddrs(db)[n]
               r == AddrByTaprootOutput(db, a.TaprootOutputKey)
           IN  r.err = OK /\ r.addr[1] = a
    /\ \A addr \in AddrInputs, ts \in ManagedTimes :
           LET r == SetAddrManagedTx(db, addr, ts)
               b == AddrByTaprootOutput(r.db, addr.TaprootOutputKey)
           IN  r.err = OK /\ b.err = OK =>
                   b.addr[1].ManagedAfter.unix = ts.unix

-----------------------------------------------------------------------------
(* Claims about reading events back *)

\* the store as it is and as it is after a SetAddrManaged of a stored address
ManagedStores(d) ==
    {d} \cup { SetAddrManagedTx(d, a, ts).db :
                 a \in {Addr1, Addr4}, ts \in ManagedTimes }

\* C24 as stated: QueryAddrEvents with no parameters returns, in creation
\* order, the event a successful GetOrCreateEvent has just returned,
\* including the address record embedded in it, when the caller passed an
\* address record it read with QueryAddrs, also after SetAddrManaged.
C24_QueryReturnsCreatedEvents ==
    \A d \in ManagedStores(db) :
        \A n \in 1 .. Len(AllAddrs(d)) :
            \A c \in { x \in EventCalls :
                         x.addr.TaprootOutputKey
                             = AllAddrs(d)[n].TaprootOutputKey } :
                LET r == GetOrCreateEventOf(d, [c EXCEPT !.addr = AllAddrs(d)[n]])
                    q == QueryAddrEvents(r.db, AllEvents)
                IN  r.err = OK =>
                      /\ q.err = OK
                      /\ \A i \in 1 .. Len(q.events) : q.events[i].ID = i
                      /\ q.events[r.val[1].ID] = r.val[1]

-----------------------------------------------------------------------------
(* Claims about key rows *)

\* the serialized public keys of the internal key rows an address needs
KeyRowsOf(a) ==
    { SerializeCompressed(a.ScriptKeyTweak.RawKey.PubKey),
      SerializeCompressed(a.InternalKeyDesc.PubKey) }

\* no two internal key rows hold one public key, no two script key rows
\* one tweaked key
UniqueKeyRows(d) ==
    /\ \A i, j \in Rows(d.internal_keys) :
           d.internal_keys[i].raw_key = d.internal_keys[j].raw_key => i = j
    /\ \A i, j \in Rows(d.script_keys) :
           d.script_keys[i].tweaked_script_key
               = d.script_keys[j].tweaked_script_key => i = j

\* C29: there is at most one internal key row per serialized public key
\* and at most one script key row per tweaked key.  A successful
\* InsertAddrs of an address adds a key row only for a key that is not
\* stored, leaves every stored key under its id, and the rows of the new
\* address reference the rows of its keys; an address that uses one public
\* key as raw script key and as internal key references one row twice.
C29_OneRowPerKey ==
    /\ UniqueKeyRows(db)
    /\ \A a \in AddrInputs \cup {AddrOneKey} :
           LET r      == InsertAddrsTx(db, <<a>>)
               d      == r.db
               row    == d.addrs[Len(d.addrs)]
               script == d.script_keys[row.script_key_id]
               tweaked == SerializeCompressed(a.ScriptKey)
           IN  r.err = OK =>
                 /\ UniqueKeyRows(d)
                 /\ \A i \in Rows(db.internal_keys) :
                        d.internal_keys[i].raw_key = db.internal_keys[i].raw_key
                 /\ \A i \in Rows(db.script_keys) :
                        d.script_keys[i].tweaked_script_key
                            = db.script_keys[i].tweaked_script_key
                 /\ Len(d.internal_keys) = Len(db.internal_keys)
                        + Cardinality({ k \in KeyRowsOf(a) :
                                          InternalKeyID(db, k) = 0 })
                 /\ Len(d.script_keys) = Len(db.script_keys)
                        + (IF ScriptKeyID(db, tweaked) = 0 THEN 1 ELSE 0)
                 /\ script.tweaked_script_key = tweaked
                 /\ d.internal_keys[script.internal_key_id].raw_key
                        = SerializeCompressed(a.ScriptKeyTweak.RawKey.PubKey)
                 /\ d.internal_keys[row.taproot_key_id].raw_key
                        = SerializeCompressed(a.InternalKeyDesc.PubKey)

\* two stored addresses share an internal key row, and the address whose
\* raw script key and internal key are that stored key is inserted without
\* a new internal key row
C29_Witness ==
    LET r == InsertAddrsTx(db, <<AddrOneKey>>)
    IN  /\ \E i, j \in Rows(db.addrs) :
               i # j /\ db.addrs[i].taproot_key_id = db.addrs[j].taproot_key_id
        /\ r.err = OK
        /\ Len(r.db.internal_keys) = Len(db.internal_keys)
        /\ r.db.script_keys[Len(r.db.script_keys)].internal_key_id
               = r.db.addrs[Len(r.db.addrs)].taproot_key_id

\* C30 as stated: an internal key row is never mutated.  A successful
\* InsertAddrs leaves every stored internal key row as it is, key locator
\* included, and the addresses stored before read back as before.
C30_LocatorNeverChanges ==
    \A a \in AddrInputs :
        LET r      == InsertAddrsTx(db, <<a>>)
            before == AllAddrs(db)
            after  == AllAddrs(r.db)
        IN  r.err = OK =>
              /\ \A i \in Rows(db.internal_keys) :
                     r.db.internal_keys[i] = db.internal_keys[i]
              /\ \A n \in 1 .. Len(before) : after[n] = before[n]

\* the key descriptor the address a supplies for the serialized key k: the
\* internal key is upserted after the raw script key
SuppliedDesc(a, k) ==
    IF k = SerializeCompressed(a.InternalKeyDesc.PubKey)
    THEN a.InternalKeyDesc ELSE a.ScriptKeyTweak.RawKey

\* C30 amended: an internal key row keeps its id and its public key, and
\* its key locator is the one of the last InsertAddrs that supplied the
\* key.  A successful InsertAddrs leaves the rows of the keys it does not
\* supply as they are and stores for each key it supplies the family and
\* index it supplies, and every address reads back with the locator that
\* is stored for its internal key.
C30_LocatorOfLastInsert ==
    \A a \in AddrInputs :
        LET r     == InsertAddrsTx(db, <<a>>)
            d     == r.db
            after == AllAddrs(d)
        IN  r.err = OK =>
              /\ \A i \in Rows(db.internal_keys) :
                     /\ d.internal_keys[i].raw_key = db.internal_keys[i].raw_key
                     /\ db.internal_keys[i].raw_key \notin KeyRowsOf(a) =>
                            d.internal_keys[i] = db.internal_keys[i]
              /\ \A k \in KeyRowsOf(a) :
                     LET row == d.internal_keys[InternalKeyID(d, k)]
                     IN  /\ row.key_family = SuppliedDesc(a, k).Family
                         /\ row.key_index = SuppliedDesc(a, k).Index
              /\ \A n \in 1 .. Len(after) :
                     LET row == d.internal_keys[InternalKeyID(d,
                                    SerializeCompressed(after[n].InternalKey))]
                     IN  /\ after[n].InternalKeyDesc.Family = row.key_family
                         /\ after[n].InternalKeyDesc.Index = row.key_index

\* Addr1 is stored with the locator (2, 1) of its internal key, and the
\* InsertAddrs of Addr2, which supplies the key with the locator (2, 2),
\* changes the stored locator and what Addr1 reads back with
C30_Witness ==
    LET r == InsertAddrsTx(db, <<Addr2>>)
        i == InternalKeyID(db, SerializeCompressed(Addr1.InternalKeyDesc.PubKey))
    IN  /\ AddrID(db, SchnorrSerializePubKey(Addr1.TaprootOutputKey)) # 0
        /\ i # 0
        /\ r.err = OK
        /\ db.internal_keys[i].key_index = Addr1.InternalKeyDesc.Index
        /\ r.db.internal_keys[i].key_index = Addr2.InternalKeyDesc.Index
        /\ AddrByTaprootOutput(r.db, Addr1.TaprootOutputKey).addr[1]
               .InternalKeyDesc.Index = Addr2.InternalKeyDesc.Index

-----------------------------------------------------------------------------
(* Claims about references between rows *)

\* every reference of every row of the store d is the id of a stored row
References(d) ==
    /\ \A i \in Rows(d.genesis_assets) :
           d.genesis_assets[i].genesis_point_id \in Rows(d.genesis_points)
    /\ \A i \in Rows(d.script_keys) :
           d.script_keys[i].internal_key_id \in Rows(d.internal_keys)
    /\ \A i \in Rows(d.addrs) :
           /\ d.addrs[i].genesis_asset_id \in Rows(d.genesis_assets)
           /\ d.addrs[i].script_key_id \in Rows(d.script_keys)
           /\ d.addrs[i].taproot_key_id \in Rows(d.internal_keys)
    /\ \A i \in Rows(d.managed_utxos) :
           /\ d.managed_utxos[i].txn_id \in Rows(d.chain_txns)
           /\ d.managed_utxos[i].internal_key_id \in Rows(d.internal_keys)
    /\ \A i \in Rows(d.addr_events) :
           /\ d.addr_events[i].addr_id \in Rows(d.addrs)
           /\ d.addr_events[i].managed_utxo_id \in Rows(d.managed_utxos)
           /\ d.addr_events[i].chain_txn_id \in Rows(d.chain_txns)

\* C31: in every reachable state each address row references a stored
\* script key, internal key and genesis record, each script key a stored
\* internal key, each event a stored address and a stored managed UTXO,
\* each managed UTXO a stored chain transaction.  It holds after InsertAddrs,
\* after GetOrCreateEvent and after CompleteEvent, which hands the event
\* upsert no managed UTXO id, whether the call succeeds or fails.
C31_ReferencesResolve ==
    /\ References(db)
    /\ \A a \in AddrInputs \cup {AddrOneKey} :
           References(InsertAddrsTx(db, <<a>>).db)
    /\ \A c \in EventCalls : References(GetOrCreateEventOf(db, c).db)
    /\ \A n \in 1 .. Len(HeldEvents(db)), anchorPoint \in AnchorPoints :
           References(CompleteEventTx(db, HeldEvents(db)[n], StatusCompleted,
                                      anchorPoint).db)

\* the store holds events, an address inserted after them resolves its
\* references, a CompleteEvent of a stored event succeeds, and one for an
\* outpoint that has no event fails and adds no event row
C31_Witness ==
    /\ Len(db.addr_events) >= 2
    /\ Len(InsertAddrsTx(db, <<Addr2>>).db.addrs) = Len(db.addrs) + 1
    /\ \E n \in 1 .. Len(HeldEvents(db)) :
           /\ CompleteEventTx(db, HeldEvents(db)[n], StatusCompleted,
                  HeldEvents(db)[n].Outpoint).err = OK
           /\ \E anchorPoint \in AnchorPoints :
                  LET r == CompleteEventTx(db, HeldEvents(db)[n],
                                           StatusCompleted, anchorPoint)
                  IN  r.err # OK /\ r.db = db

-----------------------------------------------------------------------------
(* Claims about what SetAddrManaged leaves alone *)

\* C32: SetAddrManaged(addr, ts) succeeds and changes only the managed-from
\* value of the address row whose taproot output key is the one of addr:
\* the other fields of that row, the other address rows and the key, chain
\* transaction, managed UTXO and event rows are as before.  When no
\* address with the key is stored the store is as before.
C32_SetAddrManagedFrame ==
    \A addr \in AddrInputs, ts \in ManagedTimes :
        LET r  == SetAddrManagedTx(db, addr, ts)
            id == AddrID(db, SchnorrSerializePubKey(addr.TaprootOutputKey))
        IN  /\ r.err = OK
            /\ id = 0 => r.db = db
            /\ id # 0 =>
                   r.db = [db EXCEPT !.addrs[id].managed_from = <<StoreTime(ts)>>]

\* the store holds keys, addresses, chain transactions, managed UTXOs and
\* events; SetAddrManaged of the stored Addr1 changes the store and
\* SetAddrManaged of Addr2, which is not stored, does not
C32_Witness ==
    /\ Len(db.addr_events) >= 1 /\ Len(db.managed_utxos) >= 1
    /\ Len(db.addrs) >= 2
    /\ SetAddrManagedTx(db, Addr1, Time(30, TRUE)).db # db
    /\ SetAddrManagedTx(db, Addr1, Time(30, TRUE)).db.addr_events
           = db.addr_events
    /\ AddrID(db, SchnorrSerializePubKey(Addr2.TaprootOutputKey)) = 0
    /\ SetAddrManagedTx(db, Addr2, Time(30, TRUE)).db = db

-----------------------------------------------------------------------------
(* Claims about the output index of an event *)

\* calls of GetOrCreateEvent for the stored Addr1 whose output index is
\* not an index of the output details of the wallet transaction: Tx1 has
\* two outputs, Tx2 has one
BadIndexCalls ==
    { c \in { EventCall(s, Addr1, w, idx, <<>>, FirstSeen, "none") :
                  s \in {StatusTransactionDetected, StatusTransactionConfirmed},
                  w \in {Tx1Unconfirmed, Tx1Confirmed, Tx2Unconfirmed},
                  idx \in 1 .. 3 } :
          c.outputIdx >= Len(c.walletTx.OutputDetails) }

\* C33 as stated: GetOrCreateEvent with an output index that is not an
\* index of the output details of the wallet transaction returns an error
\* to its caller, does not crash, and writes nothing to the store.
C33_BadIndexIsError ==
    \A c \in BadIndexCalls :
        LET r == GetOrCreateEventOf(db, c)
        IN  /\ r.err # OK
            /\ r.err # Panic
            /\ r.db = db
====
